---- MODULE Spec2Model ----
(***************************************************************************)
(* Plaques2Gallery: the image-retrieval core of plaques2gallery            *)
(* (src/plaques2gallery/web_scraping.py).  The module models               *)
(* process_a_painting, the three tier helpers it calls and                 *)
(* extract_main_image_from_page, one await at a time (Spec, and SpecFair   *)
(* with the event loop's fairness); get_img with                           *)
(* extract_best_image_from_url, download_image_from_url and                *)
(* convert_to_jpeg on one page (SpecGetImg); several process_a_painting    *)
(* tasks on one event loop (SpecConcurrent); the batch controller in front *)
(* of them (SpecBatch); accept_cookies on one page (SpecCookies); and      *)
(* process_a_painting of the legacy module src/web_scrapping.py            *)
(* (SpecLegacy).                                                           *)
(*                                                                         *)
(* Python values are encoded as TLA+ strings: None is "None", the empty    *)
(* list [] is "[]", and a URL or a page text is the string itself, with    *)
(* Chars giving its characters so that Python's substring test ("in") and  *)
(* str.lower() are computed character by character.                        *)
(***************************************************************************)
EXTENDS Integers, Sequences, FiniteSets, TLC

\* Longest candidate list the model enumerates.
MaxUrls == 3

None == "None"
EmptyList == "[]"

\* Python truthiness of an encoded value (if x: ...).
Truthy(v) == v \notin {None, EmptyList, ""}

\* Python's  sub in s  on character sequences.
Contains(sub, s) ==
  \E i \in 0..Len(s) :
    /\ i + Len(sub) <= Len(s)
    /\ SubSeq(s, i + 1, i + Len(sub)) = sub

UpperLetters ==
  <<"A", "B", "C", "D", "E", "F", "G", "H", "I", "J", "K", "L", "M",
    "N", "O", "P", "Q", "R", "S", "T", "U", "V", "W", "X", "Y", "Z">>

LowerLetters ==
  <<"a", "b", "c", "d", "e", "f", "g", "h", "i", "j", "k", "l", "m",
    "n", "o", "p", "q", "r", "s", "t", "u", "v", "w", "x", "y", "z">>

\* str.lower() on a character sequence.
lower(s) ==
  [i \in 1..Len(s) |->
     IF \E k \in 1..26 : UpperLetters[k] = s[i]
     THEN LowerLetters[CHOOSE k \in 1..26 : UpperLetters[k] = s[i]]
     ELSE s[i]]

\* config.py: domain keyword -> display name, in the dict's insertion order.
KNOWN_MUSEUMS ==
  << [domain |-> <<"m", "f", "a">>,
      name |-> "Museum of Fine Arts Boston"],
     [domain |-> <<"a", "r", "t", "i", "c">>,
      name |-> "The Art Institute of Chicago"],
     [domain |-> <<"b", "e", "l", "v", "e", "d", "e", "r", "e">>,
      name |-> "Austrian Gallery Belvedere"],
     [domain |-> <<"m", "e", "t", "m", "u", "s", "e", "u", "m">>,
      name |-> "The Metropolitan Museum of Art"],
     [domain |-> <<"n", "g", "a">>,
      name |-> "The National Gallery of Art"],
     [domain |-> <<"s", "f", "m", "o", "m", "a">>,
      name |-> "San Francisco Museum of Modern Art (SFMOMA)"],
     [domain |-> <<"g", "u", "g", "g", "e", "n", "h", "e", "i", "m">>,
      name |-> "The Guggenheim Museum"],
     [domain |-> <<"p", "h", "i", "l", "a", "m", "u", "s", "e", "u", "m">>,
      name |-> "The Philadelphia Museum of Art"],
     [domain |-> <<"a", "l", "b", "e", "r", "t", "i", "n", "a">>,
      name |-> "Albertina Museum Wien"],
     [domain |-> <<"h", "a", "r", "v", "a", "r", "d", "a", "r", "t", "m", "u", "s", "e", "u", "m", "s">>,
      name |-> "The Harvard Art Museums"],
     [domain |-> <<"l", "e", "o", "p", "o", "l", "d", "m", "u", "s", "e", "u", "m">>,
      name |-> "The Leopold Museum"],
     [domain |-> <<"m", "u", "s", "e", "o", "d", "e", "l", "n", "o", "v", "e", "c", "e", "n", "t", "o">>,
      name |-> "The Museo del Novecento"],
     [domain |-> <<"m", "o", "m", "a">>,
      name |-> "Museum of Modern Art (MoMA)"],
     [domain |-> <<"g", "a", "l", "l", "e", "r", "i", "a", "b", "o", "r", "g", "h", "e", "s", "e">>,
      name |-> "The Galleria Borghese"],
     [domain |-> <<"d", "o", "r", "i", "a", "p", "a", "m", "p", "h", "i", "l", "j">>,
      name |-> "Galleria Doria Pamphilji"],
     [domain |-> <<"f", "a", "m", "s", "f">>,
      name |-> "The Fine Arts Museums of San Francisco"],
     [domain |-> <<"n", "o", "m", "a">>,
      name |-> "The New Orleans Museum of Art (NOMA)"],
     [domain |-> <<"s", "j", "m", "u", "s", "a", "r", "t">>,
      name |-> "The San José Museum of Art"],
     [domain |-> <<"b", "a", "m", "p", "f", "a">>,
      name |-> "Berkeley Art Museum and Pacific Film Archive (BAMPFA)"],
     [domain |-> <<"s", "i">>,
      name |-> "Smithsonian Museums"] >>

\* config.py: phrases that mark a captcha or bot-detection page.
CAPTCHA_KEYWORDS ==
  << <<"c", "a", "p", "t", "c", "h", "a">>,
     <<"n", "o", "t", " ", "a", " ", "r", "o", "b", "o", "t">>,
     <<"c", "l", "o", "u", "d", "f", "l", "a", "r", "e">>,
     <<"v", "e", "r", "i", "f", "y", " ", "y", "o", "u", " ", "a", "r", "e", " ", "h", "u", "m", "a", "n">>,
     <<"c", "h", "e", "c", "k", "i", "n", "g", " ", "y", "o", "u", "r", " ", "b", "r", "o", "w", "s", "e", "r">>,
     <<"s", "i", "c", "h", "e", "r", "h", "e", "i", "t", "s", "ü", "b", "e", "r", "p", "r", "ü", "f", "u", "n", "g">>,
     <<"b", "e", "s", "t", "ä", "t", "i", "g", "e", "n", " ", "s", "i", "e", ",", " ", "d", "a", "s", "s", " ", "s", "i", "e", " ", "e", "i", "n", " ", "m", "e", "n", "s", "c", "h", " ", "s", "i", "n", "d">>,
     <<"v", "e", "r", "i", "f", "i", "c", "a", " ", "d", "i", " ", "s", "i", "c", "u", "r", "e", "z", "z", "a">>,
     <<"v", "e", "r", "i", "f", "i", "c", "a", " ", "c", "h", "e", " ", "t", "u", " ", "s", "i", "a", " ", "u", "n", " ", "e", "s", "s", "e", "r", "e", " ", "u", "m", "a", "n", "o">>,
     <<"v", "e", "r", "i", "f", "i", "c", "a", " ", "b", "r", "o", "w", "s", "e", "r">>,
     <<"n", "o", "n", " ", "s", "o", "n", "o", " ", "e", "i", "n", " ", "r", "o", "b", "o", "t">> >>

\* config.py: words that mark a consent button, in several languages.
COOKIE_CONSENT_KEYWORDS ==
  << <<"a", "c", "c", "e", "p", "t">>,
     <<"a", "l", "l", "o", "w">>,
     <<"a", "k", "z", "e", "p", "t", "i", "e", "r", "e", "n">>,
     <<"c", "o", "n", "s", "e", "n", "t">>,
     <<"z", "u", "s", "t", "i", "m", "m", "e", "n">>,
     <<"a", "g", "r", "e", "e">>,
     <<"e", "i", "n", "w", "i", "l", "l", "i", "g", "e", "n">>,
     <<"a", "c", "c", "e", "t", "t", "a">>,
     <<"c", "o", "n", "s", "e", "n", "t", "i">>,
     <<"a", "c", "c", "o", "n", "s", "e", "n", "t", "i">>,
     <<"h", "o", " ", "c", "a", "p", "i", "t", "o">> >>

\* The characters of the URLs, page texts, attribute values and header values
\* the model enumerates.
Chars(s) ==
  CASE s = "en.wikipedia.org/wiki/Mona_Lisa" ->
         <<"e", "n", ".", "w", "i", "k", "i", "p", "e", "d", "i", "a", ".", "o", "r", "g", "/", "w", "i", "k", "i", "/", "M", "o", "n", "a", "_", "L", "i", "s", "a">>
    [] s = "en.wikipedia.org/wiki/Impression,_Sunrise" ->
         <<"e", "n", ".", "w", "i", "k", "i", "p", "e", "d", "i", "a", ".", "o", "r", "g", "/", "w", "i", "k", "i", "/", "I", "m", "p", "r", "e", "s", "s", "i", "o", "n", ",", "_", "S", "u", "n", "r", "i", "s", "e">>
    [] s = "www.metmuseum.org/art/436532" ->
         <<"w", "w", "w", ".", "m", "e", "t", "m", "u", "s", "e", "u", "m", ".", "o", "r", "g", "/", "a", "r", "t", "/", "4", "3", "6", "5", "3", "2">>
    [] s = "www.sfmoma.org/artwork/98.562" ->
         <<"w", "w", "w", ".", "s", "f", "m", "o", "m", "a", ".", "o", "r", "g", "/", "a", "r", "t", "w", "o", "r", "k", "/", "9", "8", ".", "5", "6", "2">>
    [] s = "example.com/x" ->
         <<"e", "x", "a", "m", "p", "l", "e", ".", "c", "o", "m", "/", "x">>
    [] s = "Please VERIFY you are human" ->
         <<"P", "l", "e", "a", "s", "e", " ", "V", "E", "R", "I", "F", "Y", " ", "y", "o", "u", " ", "a", "r", "e", " ", "h", "u", "m", "a", "n">>
    [] s = "Mona Lisa - Louvre" ->
         <<"M", "o", "n", "a", " ", "L", "i", "s", "a", " ", "-", " ", "L", "o", "u", "v", "r", "e">>
    [] s = "a.jpg 100w, b.jpg 800w, c.jpg 400w" ->
         <<"a", ".", "j", "p", "g", " ", "1", "0", "0", "w", ",", " ", "b", ".", "j", "p", "g", " ", "8", "0", "0", "w", ",", " ", "c", ".", "j", "p", "g", " ", "4", "0", "0", "w">>
    [] s = "/i/m.jpg 1.5x, /i/h.jpg 2x, /i/l.jpg 15x" ->
         <<"/", "i", "/", "m", ".", "j", "p", "g", " ", "1", ".", "5", "x", ",", " ", "/", "i", "/", "h", ".", "j", "p", "g", " ", "2", "x", ",", " ", "/", "i", "/", "l", ".", "j", "p", "g", " ", "1", "5", "x">>
    [] s = "/i/a.jpg, /i/b.jpg" ->
         <<"/", "i", "/", "a", ".", "j", "p", "g", ",", " ", "/", "i", "/", "b", ".", "j", "p", "g">>
    [] s = "a.jpg 100w, /i/b.jpg" ->
         <<"a", ".", "j", "p", "g", " ", "1", "0", "0", "w", ",", " ", "/", "i", "/", "b", ".", "j", "p", "g">>
    [] s = "a.jpg , 100w" ->
         <<"a", ".", "j", "p", "g", " ", ",", " ", "1", "0", "0", "w">>
    [] s = "a.jpg" ->
         <<"a", ".", "j", "p", "g">>
    [] s = "/i/a.jpg" ->
         <<"/", "i", "/", "a", ".", "j", "p", "g">>
    [] s = "/i/lazy.jpg" ->
         <<"/", "i", "/", "l", "a", "z", "y", ".", "j", "p", "g">>
    [] s = "hero" ->
         <<"h", "e", "r", "o">>
    [] s = "https://example.com/art/mona-lisa" ->
         <<"h", "t", "t", "p", "s", ":", "/", "/", "e", "x", "a", "m", "p", "l", "e", ".", "c", "o", "m", "/", "a", "r", "t", "/", "m", "o", "n", "a", "-", "l", "i", "s", "a">>
    [] s = "image/jpeg" ->
         <<"i", "m", "a", "g", "e", "/", "j", "p", "e", "g">>
    [] s = "image/png" ->
         <<"i", "m", "a", "g", "e", "/", "p", "n", "g">>
    [] s = "image/x-plaque" ->
         <<"i", "m", "a", "g", "e", "/", "x", "-", "p", "l", "a", "q", "u", "e">>
    [] s = "text/html" ->
         <<"t", "e", "x", "t", "/", "h", "t", "m", "l">>
    [] s = "<button>Accept all</button>" ->
         <<"<", "b", "u", "t", "t", "o", "n", ">", "A", "c", "c", "e", "p", "t", " ", "a", "l", "l", "<", "/", "b", "u", "t", "t", "o", "n", ">">>
    [] s = "<button>Search</button>" ->
         <<"<", "b", "u", "t", "t", "o", "n", ">", "S", "e", "a", "r", "c", "h", "<", "/", "b", "u", "t", "t", "o", "n", ">">>
    [] s = "<a role=\"button\">Unacceptable</a>" ->
         <<"<", "a", " ", "r", "o", "l", "e", "=", "\"", "b", "u", "t", "t", "o", "n", "\"", ">", "U", "n", "a", "c", "c", "e", "p", "t", "a", "b", "l", "e", "<", "/", "a", ">">>
    [] s = "<button disabled=\"\">Accept</button>" ->
         <<"<", "b", "u", "t", "t", "o", "n", " ", "d", "i", "s", "a", "b", "l", "e", "d", "=", "\"", "\"", ">", "A", "c", "c", "e", "p", "t", "<", "/", "b", "u", "t", "t", "o", "n", ">">>
    [] s = "<button disabled=\"disabled\">Allow</button>" ->
         <<"<", "b", "u", "t", "t", "o", "n", " ", "d", "i", "s", "a", "b", "l", "e", "d", "=", "\"", "d", "i", "s", "a", "b", "l", "e", "d", "\"", ">", "A", "l", "l", "o", "w", "<", "/", "b", "u", "t", "t", "o", "n", ">">>
    [] s = "<input type=\"submit\" value=\"Zustimmen\">" ->
         <<"<", "i", "n", "p", "u", "t", " ", "t", "y", "p", "e", "=", "\"", "s", "u", "b", "m", "i", "t", "\"", " ", "v", "a", "l", "u", "e", "=", "\"", "Z", "u", "s", "t", "i", "m", "m", "e", "n", "\"", ">">>
    [] s = "Unsuccessful search" ->
         <<"U", "n", "s", "u", "c", "c", "e", "s", "s", "f", "u", "l", " ", "s", "e", "a", "r", "c", "h">>
    [] s = "" -> << >>

\* The candidate page URLs the model draws lists from: a wikipedia page, a
\* wikipedia page whose path also contains the institution keyword "si", an
\* institution page (it matches "sfmoma" and "moma"), and another page.
URLS ==
  { "en.wikipedia.org/wiki/Mona_Lisa",
    "en.wikipedia.org/wiki/Impression,_Sunrise",
    "www.sfmoma.org/artwork/98.562",
    "example.com/x" }

\* The visible body texts a loaded page may have.
PAGE_TEXTS == { "Please VERIFY you are human", "Mona Lisa - Louvre" }

painting_name == "Mona Lisa"

\* The plaque texts of the batch: painting name -> plaque text.
PLAQUE_TEXTS == [n \in {painting_name} |-> "Mona Lisa, Leonardo da Vinci"]

\* The cur_batch_names_to_imgs argument of process_a_painting.
VARIABLE cur_batch_names_to_imgs

EXTRACTED_IMAGES_DIR == "extracted_images"

\* f"{EXTRACTED_IMAGES_DIR}/{img_name}{img_extension}"
ImgPath(img_name, img_extension) ==
  CASE img_name = "Mona Lisa" /\ img_extension = ".jpg" -> "extracted_images/Mona Lisa.jpg"
    [] img_name = "Mona Lisa" /\ img_extension = ".png" -> "extracted_images/Mona Lisa.png"

\* The absolute image URL a page's top image resolves to.
ResolvedImageUrl(url) ==
  CASE url = "en.wikipedia.org/wiki/Mona_Lisa" -> "upload.wikimedia.org/Mona_Lisa.jpg"
    [] url = "en.wikipedia.org/wiki/Impression,_Sunrise" -> "upload.wikimedia.org/Sunrise.jpg"
    [] url = "www.metmuseum.org/art/436532" -> "images.metmuseum.org/436532.jpg"
    [] url = "www.sfmoma.org/artwork/98.562" -> "www.sfmoma.org/media/98.562.png"
    [] url = "example.com/x" -> "example.com/x.png"

\* "wikipedia" in url
IsWikipediaUrl(url) ==
  Contains(<<"w", "i", "k", "i", "p", "e", "d", "i", "a">>, Chars(url))

\* The indices of the KNOWN_MUSEUMS entries whose keyword occurs in url.
MuseumMatches(url) ==
  { k \in 1..Len(KNOWN_MUSEUMS) : Contains(KNOWN_MUSEUMS[k].domain, Chars(url)) }

Min(S) == CHOOSE x \in S : \A y \in S : x <= y

\* Mutant of FirstMuseumName: the inner loop has no break and no return, so
\* the last entry whose keyword occurs in url gives the name.
FirstMuseumName_LastEntry(url) ==
  IF MuseumMatches(url) = {} THEN None
  ELSE KNOWN_MUSEUMS[CHOOSE k \in MuseumMatches(url) :
                       \A m \in MuseumMatches(url) : m <= k].name

\* The display name of the first KNOWN_MUSEUMS entry, in dict order, whose
\* keyword occurs in url (the inner loop's first hit); None when there is none.
FirstMuseumName(url) ==
  IF MuseumMatches(url) = {} THEN None
  ELSE KNOWN_MUSEUMS[Min(MuseumMatches(url))].name

\* Both tests, computed once per URL.
WikipediaUrls == { u \in URLS : IsWikipediaUrl(u) }
MuseumNameOf == [u \in URLS |-> FirstMuseumName(u)]

_is_captcha_page(text) ==
  \E k \in 1..Len(CAPTCHA_KEYWORDS) : Contains(CAPTCHA_KEYWORDS[k], lower(Chars(text)))

\* The test, computed once per page text.
CaptchaTexts == { t \in PAGE_TEXTS : _is_captcha_page(t) }

\* Mutant of _detect_museum_from_urls: the scan keeps the last match.
_detect_museum_from_urls_Last(items) ==
  IF \E i \in 1..Len(items) : MuseumNameOf[items[i]] # None
  THEN MuseumNameOf[items[CHOOSE i \in 1..Len(items) :
                            /\ MuseumNameOf[items[i]] # None
                            /\ \A j \in 1..Len(items) : MuseumNameOf[items[j]] # None => j <= i]]
  ELSE "Unknown location"

_detect_museum_from_urls(items) ==
  IF \E i \in 1..Len(items) : MuseumNameOf[items[i]] # None
  THEN MuseumNameOf[items[Min({ i \in 1..Len(items) : MuseumNameOf[items[i]] # None })]]
  ELSE "Unknown location"

\* Mutant of MuseumEligible: the  if url in invalid_urls: continue  is missing.
MuseumEligible_NoSkip(url, invalid) == MuseumNameOf[url] # None

\* _try_museum_urls attempts url: it is not in invalid_urls and some
\* KNOWN_MUSEUMS keyword occurs in it.
MuseumEligible(url, invalid) == url \notin invalid /\ MuseumNameOf[url] # None

\* Mutant of RemainingEligible: the last tier also skips the URLs in which no
\* known-institution keyword occurs.
RemainingEligible_KnownOnly(url, invalid) == url \notin invalid /\ MuseumNameOf[url] # None

\* _try_remaining_urls attempts url: it is not in invalid_urls.
RemainingEligible(url, invalid) == url \notin invalid

\* Mutant of NoUrlsRecord: the last component is the empty string.
NoUrlsRecord_EmptyUrl ==
  << cur_batch_names_to_imgs[painting_name],
     EmptyList,
     "No image was downloaded (no urls were found).",
     "Unknown location",
     "" >>

\* The record written by the entry guard.
NoUrlsRecord ==
  << cur_batch_names_to_imgs[painting_name],
     EmptyList,
     "No image was downloaded (no urls were found).",
     "Unknown location",
     "No url to download the image was located." >>

\* Mutant of ExhaustedRecord: the inferred location is dropped.
ExhaustedRecord_NoLocation(location) ==
  << cur_batch_names_to_imgs[painting_name],
     EmptyList,
     "No image was downloaded even though some urls were found.",
     "Unknown location",
     "" >>

\* The record written when no tier produced an image.
ExhaustedRecord(location) ==
  << cur_batch_names_to_imgs[painting_name],
     EmptyList,
     "No image was downloaded even though some urls were found.",
     location,
     "" >>

\* Mutant of SuccessRecord: the source page is urls[-1].
SuccessRecord_LastUrl(items, path, location, url) ==
  << cur_batch_names_to_imgs[painting_name],
     path,
     items[Len(items)],
     location,
     IF Truthy(url) THEN url ELSE "" >>

\* The record written by the tier that produced an image.
SuccessRecord(items, path, location, url) ==
  << cur_batch_names_to_imgs[painting_name],
     path,
     items[1],
     location,
     IF Truthy(url) THEN url ELSE "" >>

\* All sequences over S of length at most n.
SeqsUpTo(S, n) == UNION { [1..k -> S] : k \in 0..n }

\* The values the urls argument takes: the search stage's error string, or a
\* list of candidate URLs (possibly empty, possibly with repeats).
UrlArguments ==
  { [isStr |-> TRUE, text |-> "Unsuccessful search", items |-> <<>>] }
  \cup { [isStr |-> FALSE, text |-> "", items |-> s] : s \in SeqsUpTo(URLS, MaxUrls) }

\* Mutant of Falsy: the guard tests only isinstance(urls, str).
Falsy_OnlyStr(u) == FALSE

\* not urls
Falsy(u) == IF u.isStr THEN u.text = "" ELSE u.items = <<>>

(***************************************************************************)
(* The pure parts of extract_best_image_from_url, download_image_from_url, *)
(* convert_to_jpeg and get_img.  A str is handled as its characters; Str   *)
(* gives the string back.                                                  *)
(***************************************************************************)

\* Most <img> elements a page of the model has.
MaxImgs == 2

RECURSIVE Str(_)
Str(cs) == IF cs = << >> THEN "" ELSE Head(cs) \o Str(Tail(cs))

Whitespace == {" "}

Digits == <<"0", "1", "2", "3", "4", "5", "6", "7", "8", "9">>

\* str.isdigit() of one character.
isdigit(c) == \E d \in 1..Len(Digits) : Digits[d] = c

\* The characters of the model's strings in code point order.
CodePoints ==
  <<" ", ",", "-", ".", "/">> \o Digits \o <<":">> \o UpperLetters \o <<"_">> \o LowerLetters

ord(c) == CHOOSE k \in 1..Len(CodePoints) : CodePoints[k] = c

\* Python's  a < b  on two str.
RECURSIVE StrLess(_, _)
StrLess(a, b) ==
  IF b = << >> THEN FALSE
  ELSE IF a = << >> THEN TRUE
  ELSE IF Head(a) = Head(b) THEN StrLess(Tail(a), Tail(b))
  ELSE ord(Head(a)) < ord(Head(b))

\* Mutant of TupleLess: the first components compare the other way round.
TupleLess_Reversed(x, y) ==
  \/ x[1] > y[1]
  \/ /\ x[1] = y[1]
     /\ IF Len(x) = 3 THEN x[2] < y[2] ELSE StrLess(x[2], y[2])

\* Python's  x < y  on the tuples the two heaps hold: (-area, i, img_block)
\* in get_img, where no two i are equal, and (-value, url) in
\* extract_best_image_from_url.
TupleLess(x, y) ==
  \/ x[1] < y[1]
  \/ /\ x[1] = y[1]
     /\ IF Len(x) = 3 THEN x[2] < y[2] ELSE StrLess(x[2], y[2])

\* heapq._siftdown(heap, startpos, pos), positions counted from 1.
RECURSIVE _siftdown(_, _, _, _)
_siftdown(h, startpos, pos, newitem) ==
  IF pos > startpos /\ TupleLess(newitem, h[pos \div 2])
  THEN _siftdown([h EXCEPT ![pos] = h[pos \div 2]], startpos, pos \div 2, newitem)
  ELSE [h EXCEPT ![pos] = newitem]

\* Mutant of heappush: the item is appended and the heap is not restored.
heappush_Append(h, item) == Append(h, item)

\* heapq.heappush(heap, item)
heappush(h, item) == _siftdown(Append(h, item), 1, Len(h) + 1, item)

\* The loop of heapq._siftup: bubble the smaller child up until a leaf.
RECURSIVE _siftup_loop(_, _)
_siftup_loop(h, pos) ==
  LET childpos == 2 * pos
      rightpos == childpos + 1
      smaller  == IF rightpos <= Len(h) /\ ~TupleLess(h[childpos], h[rightpos])
                  THEN rightpos ELSE childpos
  IN  IF childpos <= Len(h)
      THEN _siftup_loop([h EXCEPT ![pos] = h[smaller]], smaller)
      ELSE << h, pos >>

\* heapq._siftup(heap, pos)
_siftup(h, pos) ==
  LET r == _siftup_loop(h, pos)
  IN  _siftdown(r[1], pos, r[2], h[pos])

\* heapq.heapify(x): _siftup(x, i) for i in reversed(range(n // 2))
RECURSIVE heapify_from(_, _)
heapify_from(h, i) == IF i < 1 THEN h ELSE heapify_from(_siftup(h, i), i - 1)

heapify(x) == heapify_from(x, Len(x) \div 2)

\* heapq.heappop(heap): << the item returned, the heap left >>.
heappop(h) ==
  LET lastelt == h[Len(h)]
      rest    == SubSeq(h, 1, Len(h) - 1)
  IN  IF rest = << >> THEN << lastelt, rest >>
      ELSE << rest[1], _siftup([rest EXCEPT ![1] = lastelt], 1) >>

\* str.strip() and str.rstrip(",")
RECURSIVE lstrip(_)
lstrip(cs) == IF cs # << >> /\ Head(cs) \in Whitespace THEN lstrip(Tail(cs)) ELSE cs

RECURSIVE rstrip(_, _)
rstrip(cs, chars) ==
  IF cs # << >> /\ cs[Len(cs)] \in chars THEN rstrip(SubSeq(cs, 1, Len(cs) - 1), chars) ELSE cs

strip(cs) == rstrip(lstrip(cs), Whitespace)

\* str.split(): the maximal runs of characters that are not whitespace.
RECURSIVE split_from(_, _)
split_from(cs, word) ==
  LET done == IF word = << >> THEN << >> ELSE << word >>
  IN  IF cs = << >> THEN done
      ELSE IF Head(cs) \in Whitespace THEN done \o split_from(Tail(cs), << >>)
      ELSE split_from(Tail(cs), Append(word, Head(cs)))

split(cs) == split_from(cs, << >>)

\* [token.rstrip(",") for token in srcset.strip().split()]
SrcsetTokens(srcset) ==
  LET words == split(strip(srcset))
  IN  [k \in 1..Len(words) |-> rstrip(words[k], {","})]

\* int(''.join(filter(str.isdigit, descriptor)))
RECURSIVE DigitsValue(_, _)
DigitsValue(cs, n) ==
  IF cs = << >> THEN n
  ELSE IF isdigit(Head(cs)) THEN DigitsValue(Tail(cs), 10 * n + (ord(Head(cs)) - ord("0")))
  ELSE DigitsValue(Tail(cs), n)

\* The pairing loop (while i < len(srcset_tokens) - 1), i counted from 1:
\* the pairs, or the IndexError that descriptor[-1] raises on an empty token.
RECURSIVE SrcsetPairs(_, _, _)
SrcsetPairs(tokens, i, pairs) ==
  IF ~(i < Len(tokens)) THEN [raises |-> None, pairs |-> pairs]
  ELSE LET url        == tokens[i]
           descriptor == tokens[i + 1]
       IN  IF descriptor = << >> THEN [raises |-> "IndexError", pairs |-> pairs]
           ELSE IF /\ descriptor[Len(descriptor)] \in {"w", "x"}
                   /\ \E k \in 1..(Len(descriptor) - 1) : isdigit(descriptor[k])
                THEN SrcsetPairs(tokens, i + 2,
                                 Append(pairs, << url, DigitsValue(descriptor, 0) >>))
                ELSE SrcsetPairs(tokens, i + 1, pairs)

\* urllib.parse.urljoin(base_url, url) for an absolute URL, a path from the
\* root, an empty string and a relative path.
Find(sub, s) ==
  IF Contains(sub, s)
  THEN CHOOSE i \in 1..Len(s) :
         /\ i + Len(sub) - 1 <= Len(s)
         /\ SubSeq(s, i, i + Len(sub) - 1) = sub
         /\ \A j \in 1..(i - 1) : SubSeq(s, j, j + Len(sub) - 1) # sub
  ELSE 0

RFind(c, s) == IF \E i \in 1..Len(s) : s[i] = c
               THEN CHOOSE i \in 1..Len(s) : s[i] = c /\ \A j \in (i + 1)..Len(s) : s[j] # c
               ELSE 0

urljoin(base_url, url) ==
  LET host_at == Find(<<":", "/", "/">>, base_url) + 3
      path_at == host_at - 1 + Find(<<"/">>, SubSeq(base_url, host_at, Len(base_url)))
  IN  IF url = << >> THEN base_url
      ELSE IF Contains(<<":", "/", "/">>, url) THEN url
      ELSE IF Head(url) = "/" THEN SubSeq(base_url, 1, path_at - 1) \o url
      ELSE SubSeq(base_url, 1, RFind("/", base_url)) \o url

\* str.startswith
startswith(s, prefix) == Len(prefix) <= Len(s) /\ SubSeq(s, 1, Len(prefix)) = prefix

\* content_type.split(";")[0]
BeforeSemicolon(s) ==
  IF \E i \in 1..Len(s) : s[i] = ";"
  THEN SubSeq(s, 1, (CHOOSE i \in 1..Len(s) : s[i] = ";" /\ \A j \in 1..(i - 1) : s[j] # ";") - 1)
  ELSE s

\* mimetypes.guess_extension for the content types of the model.
guess_extension(content_type) ==
  CASE Str(content_type) = "image/jpeg" -> ".jpg"
    [] Str(content_type) = "image/png" -> ".png"
    [] OTHER -> None

\* What one HTTP GET may meet: a response (status, Content-Type header or
\* None when the header is missing, body), or an exception in place of a
\* response.
RESPONSES ==
  { [raises |-> None, status |-> 200, content_type |-> "image/jpeg", body |-> "<jpeg bytes>"],
    [raises |-> None, status |-> 200, content_type |-> "image/png", body |-> "<png bytes>"],
    [raises |-> None, status |-> 200, content_type |-> "image/x-plaque", body |-> "<bytes>"],
    [raises |-> None, status |-> 200, content_type |-> "image/png", body |-> ""],
    [raises |-> None, status |-> 200, content_type |-> "text/html", body |-> "<html>"],
    [raises |-> None, status |-> 404, content_type |-> "image/png", body |-> "<png bytes>"],
    [raises |-> None, status |-> 200, content_type |-> None, body |-> "<bytes>"],
    [raises |-> "aiohttp.ClientError", status |-> 0, content_type |-> None, body |-> None],
    [raises |-> "TimeoutError", status |-> 0, content_type |-> None, body |-> None] }

\* response.headers.get("Content-Type", "")
ContentTypeHeader(r) == IF r.content_type = None THEN << >> ELSE Chars(r.content_type)

\* Mutant of download_image_from_url: the Content-Type is not tested.
download_image_from_url_AnyType(url, base_url, r) ==
  LET absolute_url == urljoin(base_url, url)
      extension    == guess_extension(BeforeSemicolon(ContentTypeHeader(r)))
  IN  IF r.raises # None THEN << None, None, None >>
      ELSE IF r.status = 200
      THEN << r.body, Str(absolute_url), IF extension # None THEN extension ELSE ".jpg" >>
      ELSE << None, None, None >>

\* download_image_from_url(url, base_url) when the request meets r.
download_image_from_url(url, base_url, r) ==
  LET absolute_url == urljoin(base_url, url)
      extension    == guess_extension(BeforeSemicolon(ContentTypeHeader(r)))
  IN  IF r.raises # None THEN << None, None, None >>
      ELSE IF r.status = 200 /\ startswith(ContentTypeHeader(r), <<"i", "m", "a", "g", "e", "/">>)
      THEN << r.body, Str(absolute_url), IF extension # None THEN extension ELSE ".jpg" >>
      ELSE << None, None, None >>

\* What PIL may do inside convert_to_jpeg's try block: finish, or raise.
\* Image.open raises UnidentifiedImageError (an OSError) on bytes it does not
\* recognise and DecompressionBombError (an Exception, not an OSError) on an
\* oversized image.
PIL_OUTCOMES == {"converted", "OSError", "ValueError", "DecompressionBombError"}

\* convert_to_jpeg(img_bytes, img_extension) when PIL does pil: the pair
\* returned, or the exception that leaves the function.
convert_to_jpeg(img_bytes, img_extension, pil) ==
  IF pil = "converted"
  THEN [raises |-> None, value |-> << "<jpeg bytes>", ".jpg" >>]
  ELSE IF pil \in {"IOError", "OSError", "ValueError"}
  THEN [raises |-> None, value |-> << img_bytes, img_extension >>]
  ELSE [raises |-> pil, value |-> << None, None >>]

\* page.url of the page get_img works on.
page_url == "https://example.com/art/mona-lisa"

\* bounding_box() returns None for an element that is not laid out.
NoBox == [none |-> TRUE, width |-> 0, height |-> 0]

\* The bounding boxes an <img> element may have.
BOXES ==
  { NoBox,
    [none |-> FALSE, width |-> 0, height |-> 5],
    [none |-> FALSE, width |-> 2, height |-> 3],
    [none |-> FALSE, width |-> 4, height |-> 4] }

\* The attributes an <img> element may carry, in the order the page's
\* script enumerates them.
ATTRIBUTES ==
  { << << "src", "/i/a.jpg" >> >>,
    << << "srcset", "a.jpg 100w, b.jpg 800w, c.jpg 400w" >>, << "src", "a.jpg" >>,
       << "class", "hero" >> >>,
    << << "srcset", "/i/m.jpg 1.5x, /i/h.jpg 2x, /i/l.jpg 15x" >> >>,
    << << "class", "hero" >>, << "srcset", "/i/a.jpg, /i/b.jpg" >>, << "src", "" >>,
       << "data-src", "/i/lazy.jpg" >> >>,
    << << "srcset", "a.jpg 100w, /i/b.jpg" >>, << "src", "/i/a.jpg" >> >>,
    << << "srcset", "a.jpg , 100w" >>, << "src", "a.jpg" >> >> }

\* The <img> elements a page is made of: every attribute set in a box of
\* non-zero area, and one element for each box get_img skips (its attributes
\* are never read).
IMG_BLOCKS ==
  { b \in [box : BOXES, attrs : ATTRIBUTES] :
      (b.box = NoBox \/ b.box.width * b.box.height = 0) => b.attrs = << << "src", "/i/a.jpg" >> >> }

\* The pages get_img may be given: up to MaxImgs <img> elements.
PAGES == UNION { [1..n -> IMG_BLOCKS] : n \in 0..MaxImgs }

\* Mutant of SkippedKeys: the last loop skips no attribute.
SkippedKeys_None == {}

\* if key in ("src", "srcset"): continue
SkippedKeys == {"src", "srcset"}

\* element.get_attribute(name): the value, or None when the attribute is absent.
get_attribute(img_block, name) ==
  IF \E k \in 1..Len(img_block.attrs) : img_block.attrs[k][1] = name
  THEN img_block.attrs[CHOOSE k \in 1..Len(img_block.attrs) : img_block.attrs[k][1] = name][2]
  ELSE None


VARIABLES
  urls,                \* the urls argument of process_a_painting
  pc,                  \* where process_a_painting is
  idx,                 \* position of the running tier's for loop in urls
  painting_location,   \* local of process_a_painting
  invalid_urls,        \* the set shared by the three tiers
  cur_batch_results,   \* the result table
  ppc,                 \* where extract_main_image_from_page is
  page,                \* its local page: "None", "open" or "closed"
  exc,                 \* the exception in flight in it, or "None"
  ret,                 \* its return value (img_path, img_url)
  content,             \* its local content: the body text read, or "None"
  attempted,           \* history: the calls of extract_main_image_from_page
  writes,              \* history: assignments to cur_batch_results[painting_name]
  new_page_calls,      \* history: calls of browser.new_page
  close_calls,         \* history: calls of page.close in the current attempt
  files,               \* history: image files written
  ops                  \* history: what the current attempt did on its page

painting_vars ==
  << urls, cur_batch_names_to_imgs, pc, idx, painting_location, invalid_urls, cur_batch_results,
     ppc, page, exc, ret, content, attempted, writes, new_page_calls, close_calls,
     files, ops >>

\* The state of one call of get_img on a loaded page, followed step by step
\* through extract_best_image_from_url, download_image_from_url and
\* convert_to_jpeg.
VARIABLES
  img_blocks,          \* the page's <img> elements in document order
  gpc,                 \* where get_img / extract_best_image_from_url is
  gi,                  \* index of the running loop
  heap,                \* get_img's heap of (-area, i, img_block)
  srcset_tokens,       \* local of extract_best_image_from_url
  srcset_pairs,        \* local of extract_best_image_from_url
  max_heap,            \* local of extract_best_image_from_url
  image,               \* (img_bytes, img_url, img_extension) in hand
  response,            \* what the last HTTP request met
  conversion,          \* how convert_to_jpeg's last call went
  get_img_ret,         \* get_img's return value
  raised,              \* the exception that left get_img
  downloads,           \* history: the calls of download_image_from_url
  passed,              \* history: elements passed to extract_best_image_from_url
  written              \* history: the files get_img wrote

get_img_vars ==
  << img_blocks, gpc, gi, heap, srcset_tokens, srcset_pairs, max_heap, image,
     response, conversion, get_img_ret, raised, downloads, passed, written >>

\* Several process_a_painting tasks on one event loop, each followed from
\* one await of extract_main_image_from_page to the next, and the result
\* table they share.
VARIABLES
  names,               \* painting_name of each task, in batch order
  task_urls,           \* urls of each task
  task_pc,             \* where each task is
  task_idx,            \* position of each task's running for loop
  task_location,       \* painting_location of each task
  task_invalid,        \* invalid_urls of each task
  task_awaiting,       \* the task is suspended in extract_main_image_from_page
  task_log,            \* history: each task's attempts and how they went
  batch_results,       \* cur_batch_results, shared by the tasks
  accesses             \* history: who touched which key of which table

batch_vars ==
  << names, task_urls, task_pc, task_idx, task_location, task_invalid,
     task_awaiting, task_log, batch_results, accesses >>

\* One call of accept_cookies on a loaded page, one await at a time, and what
\* extract_main_image_from_page does when the call is over.
VARIABLES
  all_buttons,         \* the page's clickable elements in document order
  cpc,                 \* where accept_cookies is
  ci,                  \* position of the running for loop
  filtered_buttons,    \* local of accept_cookies: positions in all_buttons
  clicks,              \* history: the calls of button.click and how they went
  cookies_raised,      \* the exception that left accept_cookies
  after_cookies        \* what extract_main_image_from_page went on to do

cookie_vars ==
  << all_buttons, cpc, ci, filtered_buttons, clicks, cookies_raised, after_cookies >>

\* One call of process_a_painting of the legacy module src/web_scrapping.py,
\* one loop turn at a time.
VARIABLES
  legacy_urls,         \* its urls argument
  legacy_pc,           \* where it is
  legacy_idx,          \* position of the running  for url in urls
  legacy_key,          \* position of the inner  for museum_domain in visited_museums
  legacy_location,     \* its local painting_location
  legacy_invalid,      \* its local invalid_urls
  legacy_results,      \* the cur_batch_results it writes
  legacy_attempts      \* history: the calls of extract_main_image_from_page

legacy_vars ==
  << legacy_urls, legacy_pc, legacy_idx, legacy_key, legacy_location,
     legacy_invalid, legacy_results, legacy_attempts >>

\* What an action of process_a_painting's model leaves alone.
outside_painting == << get_img_vars, batch_vars, cookie_vars, legacy_vars >>

vars == << painting_vars, get_img_vars, batch_vars, cookie_vars, legacy_vars >>

dispatcher_vars == << urls, cur_batch_names_to_imgs, pc, idx, painting_location, invalid_urls, cur_batch_results, writes >>

NoneResult == << None, None >>

\* No call of get_img is being followed.
GetImgIdle ==
  /\ img_blocks = << >>
  /\ gpc = "idle"
  /\ gi = 0
  /\ heap = << >>
  /\ srcset_tokens = << >>
  /\ srcset_pairs = << >>
  /\ max_heap = << >>
  /\ image = << None, None, None >>
  /\ response = None
  /\ conversion = None
  /\ get_img_ret = None
  /\ raised = None
  /\ downloads = << >>
  /\ passed = << >>
  /\ written = {}

\* No batch of tasks is being followed.
BatchIdle ==
  /\ names = << >>
  /\ task_urls = << >>
  /\ task_pc = << >>
  /\ task_idx = << >>
  /\ task_location = << >>
  /\ task_invalid = << >>
  /\ task_awaiting = << >>
  /\ task_log = << >>
  /\ batch_results = << >>
  /\ accesses = {}

\* No call of the legacy process_a_painting is being followed.
LegacyIdle ==
  /\ legacy_urls = [isStr |-> TRUE, text |-> "Unsuccessful search", items |-> <<>>]
  /\ legacy_pc = "idle"
  /\ legacy_idx = 0
  /\ legacy_key = 0
  /\ legacy_location = None
  /\ legacy_invalid = {}
  /\ legacy_results = << >>
  /\ legacy_attempts = << >>

\* No call of accept_cookies is being followed.
CookiesIdle ==
  /\ all_buttons = << >>
  /\ cpc = "idle"
  /\ ci = 0
  /\ filtered_buttons = << >>
  /\ clicks = << >>
  /\ cookies_raised = None
  /\ after_cookies = None

Init ==
  /\ GetImgIdle
  /\ BatchIdle
  /\ CookiesIdle
  /\ LegacyIdle
  /\ urls \in UrlArguments
  /\ cur_batch_names_to_imgs = PLAQUE_TEXTS
  /\ pc = "entry"
  /\ idx = 1
  /\ painting_location = None
  /\ invalid_urls = {}
  /\ cur_batch_results = << >>
  /\ ppc = "idle"
  /\ page = None
  /\ exc = None
  /\ ret = NoneResult
  /\ attempted = << >>
  /\ writes = 0
  /\ new_page_calls = 0
  /\ content = None
  /\ close_calls = 0
  /\ files = {}
  /\ ops = << >>

items == urls.items

\* cur_batch_results[painting_name] = record
WriteResult(record) ==
  /\ cur_batch_results' = (painting_name :> record) @@ cur_batch_results
  /\ writes' = writes + 1

\* A tier awaits extract_main_image_from_page(painting_name, url, browser):
\* the callee starts at its first line with page = None.
Call(tier, url) ==
  /\ ppc' = "new_page"
  /\ page' = None
  /\ exc' = None
  /\ ret' = NoneResult
  /\ close_calls' = 0
  /\ ops' = << >>
  /\ attempted' = Append(attempted,
                         [tier |-> tier, pos |-> idx, url |-> url,
                          img_path |-> "pending", outcome |-> "pending"])
  /\ content' = None
  /\ UNCHANGED << new_page_calls, files >>

\* How the attempt that is returning went: the exception it caught, else
\* "saved", "blocked" (the captcha branch) or "no image".
AttemptOutcome ==
  IF \E i \in 1..Len(ops) : ops[i] \in {"PlaywrightTimeout", "Exception"}
  THEN ops[CHOOSE i \in 1..Len(ops) : ops[i] \in {"PlaywrightTimeout", "Exception"}]
  ELSE IF Truthy(ret[1]) THEN "saved"
  ELSE IF \E i \in 1..Len(ops) : ops[i] = "get_img" THEN "no image"
  ELSE "blocked"

\* The awaited call has returned: the tier reads (img_path, img_url).
Returned ==
  /\ ppc' = "idle"
  /\ attempted' = [attempted EXCEPT ![Len(attempted)].img_path = ret[1],
                                    ![Len(attempted)].outcome = AttemptOutcome]
  /\ UNCHANGED << page, exc, ret, close_calls, ops, new_page_calls, content, files >>

attempt_vars == << ppc, page, exc, ret, attempted, new_page_calls, content, close_calls, files, ops >>

(***************************************************************************)
(* process_a_painting                                                      *)
(***************************************************************************)

\* The entry guard, and for a usable list the location scan and the call of
\* the first tier.
EntryGuard ==
  /\ pc = "entry"
  /\ IF Falsy(urls) \/ urls.isStr
     THEN /\ WriteResult(NoUrlsRecord)
          /\ pc' = "done"
          /\ UNCHANGED << painting_location, invalid_urls >>
     ELSE /\ painting_location' = _detect_museum_from_urls(items)
          /\ invalid_urls' = {}
          /\ pc' = "wikipedia"
          /\ UNCHANGED << cur_batch_results, writes >>
  /\ idx' = 1
  /\ UNCHANGED << urls, cur_batch_names_to_imgs, attempt_vars >>
  /\ UNCHANGED outside_painting

\* _try_wikipedia_urls: one turn of  for url in urls.  When the loop ends the
\* helper returns (None, None, invalid_urls) and process_a_painting calls the
\* next tier.
TryWikipediaUrls ==
  /\ pc = "wikipedia" /\ ppc = "idle"
  /\ IF idx > Len(items)
     THEN /\ pc' = "museum"
          /\ idx' = 1
          /\ UNCHANGED attempt_vars
     ELSE IF items[idx] \in WikipediaUrls
     THEN /\ Call("wikipedia", items[idx])
          /\ UNCHANGED << pc, idx >>
     ELSE /\ idx' = idx + 1
          /\ UNCHANGED << pc, attempt_vars >>
  /\ UNCHANGED << urls, cur_batch_names_to_imgs, painting_location, invalid_urls, cur_batch_results, writes >>
  /\ UNCHANGED outside_painting

\* Mutant of WikipediaReturned: _try_wikipedia_urls does not test img_path and
\* treats every attempt as failed.
WikipediaReturned_NoTest ==
  /\ pc = "wikipedia" /\ ppc = "return"
  /\ Returned
  /\ invalid_urls' = invalid_urls \cup {items[idx]}
  /\ idx' = idx + 1
  /\ UNCHANGED << pc, cur_batch_results, writes, urls, cur_batch_names_to_imgs, painting_location >>
  /\ UNCHANGED outside_painting

\* Mutant of WikipediaReturned: process_a_painting writes the record and
\* does not return.
WikipediaReturned_NoReturn ==
  /\ pc = "wikipedia" /\ ppc = "return"
  /\ Returned
  /\ IF Truthy(ret[1])
     THEN /\ WriteResult(SuccessRecord(items, ret[1], painting_location, ret[2]))
          /\ pc' = "museum"
          /\ idx' = 1
          /\ UNCHANGED invalid_urls
     ELSE /\ invalid_urls' = invalid_urls \cup {items[idx]}
          /\ idx' = idx + 1
          /\ UNCHANGED << pc, cur_batch_results, writes >>
  /\ UNCHANGED << urls, cur_batch_names_to_imgs, painting_location >>
  /\ UNCHANGED outside_painting

\* Mutant of WikipediaReturned: the helper's final return sits inside the
\* loop, so the tier ends at its first failed URL.
WikipediaReturned_StopAtFirstFailure ==
  /\ pc = "wikipedia" /\ ppc = "return"
  /\ Returned
  /\ IF Truthy(ret[1])
     THEN /\ WriteResult(SuccessRecord(items, ret[1], painting_location, ret[2]))
          /\ pc' = "done"
          /\ UNCHANGED << idx, invalid_urls >>
     ELSE /\ invalid_urls' = invalid_urls \cup {items[idx]}
          /\ pc' = "museum"
          /\ idx' = 1
          /\ UNCHANGED << cur_batch_results, writes >>
  /\ UNCHANGED << urls, cur_batch_names_to_imgs, painting_location >>
  /\ UNCHANGED outside_painting

\* _try_wikipedia_urls after the await, and process_a_painting's  if img_path.
WikipediaReturned ==
  /\ pc = "wikipedia" /\ ppc = "return"
  /\ Returned
  /\ IF Truthy(ret[1])
     THEN /\ WriteResult(SuccessRecord(items, ret[1], painting_location, ret[2]))
          /\ pc' = "done"
          /\ UNCHANGED << idx, invalid_urls >>
     ELSE /\ invalid_urls' = invalid_urls \cup {items[idx]}
          /\ idx' = idx + 1
          /\ UNCHANGED << pc, cur_batch_results, writes >>
  /\ UNCHANGED << urls, cur_batch_names_to_imgs, painting_location >>
  /\ UNCHANGED outside_painting

\* Mutant of TryMuseumUrls: the loop does not move on from a URL it skips.
TryMuseumUrls_NoAdvance ==
  /\ pc = "museum" /\ ppc = "idle"
  /\ IF idx > Len(items)
     THEN /\ pc' = "remaining"
          /\ idx' = 1
          /\ UNCHANGED attempt_vars
     ELSE IF MuseumEligible(items[idx], invalid_urls)
     THEN /\ Call("museum", items[idx])
          /\ UNCHANGED << pc, idx >>
     ELSE /\ UNCHANGED << idx, pc, attempt_vars >>
  /\ UNCHANGED << urls, cur_batch_names_to_imgs, painting_location, invalid_urls, cur_batch_results, writes >>
  /\ UNCHANGED outside_painting

\* _try_museum_urls: one turn of  for url in urls.
TryMuseumUrls ==
  /\ pc = "museum" /\ ppc = "idle"
  /\ IF idx > Len(items)
     THEN /\ pc' = "remaining"
          /\ idx' = 1
          /\ UNCHANGED attempt_vars
     ELSE IF MuseumEligible(items[idx], invalid_urls)
     THEN /\ Call("museum", items[idx])
          /\ UNCHANGED << pc, idx >>
     ELSE /\ idx' = idx + 1
          /\ UNCHANGED << pc, attempt_vars >>
  /\ UNCHANGED << urls, cur_batch_names_to_imgs, painting_location, invalid_urls, cur_batch_results, writes >>
  /\ UNCHANGED outside_painting

\* Mutant of MuseumReturned: a failed URL is removed from the list it came
\* in, urls.remove(url), and not recorded in invalid_urls.
MuseumReturned_RemovesUrl ==
  /\ pc = "museum" /\ ppc = "return"
  /\ Returned
  /\ IF Truthy(ret[1])
     THEN /\ WriteResult(SuccessRecord(items, ret[1], MuseumNameOf[items[idx]], ret[2]))
          /\ pc' = "done"
          /\ UNCHANGED << idx, urls >>
     ELSE /\ urls' = [urls EXCEPT !.items = SubSeq(items, 1, idx - 1) \o SubSeq(items, idx + 1, Len(items))]
          /\ UNCHANGED << idx, pc, cur_batch_results, writes >>
  /\ UNCHANGED << cur_batch_names_to_imgs, painting_location, invalid_urls >>
  /\ UNCHANGED outside_painting

\* _try_museum_urls after the await (return with museum_name, or add to
\* invalid_urls and break), and process_a_painting's  if img_path.
MuseumReturned ==
  /\ pc = "museum" /\ ppc = "return"
  /\ Returned
  /\ IF Truthy(ret[1])
     THEN /\ WriteResult(SuccessRecord(items, ret[1], MuseumNameOf[items[idx]], ret[2]))
          /\ pc' = "done"
          /\ UNCHANGED << idx, invalid_urls >>
     ELSE /\ invalid_urls' = invalid_urls \cup {items[idx]}
          /\ idx' = idx + 1
          /\ UNCHANGED << pc, cur_batch_results, writes >>
  /\ UNCHANGED << urls, cur_batch_names_to_imgs, painting_location >>
  /\ UNCHANGED outside_painting

\* _try_remaining_urls: one turn of  for url in urls.  When the loop ends
\* process_a_painting writes the record of step 4.
TryRemainingUrls ==
  /\ pc = "remaining" /\ ppc = "idle"
  /\ IF idx > Len(items)
     THEN /\ WriteResult(ExhaustedRecord(painting_location))
          /\ pc' = "done"
          /\ UNCHANGED << idx, attempt_vars >>
     ELSE IF RemainingEligible(items[idx], invalid_urls)
     THEN /\ Call("remaining", items[idx])
          /\ UNCHANGED << pc, idx, cur_batch_results, writes >>
     ELSE /\ idx' = idx + 1
          /\ UNCHANGED << pc, attempt_vars, cur_batch_results, writes >>
  /\ UNCHANGED << urls, cur_batch_names_to_imgs, painting_location, invalid_urls >>
  /\ UNCHANGED outside_painting

\* _try_remaining_urls after the await, and process_a_painting's  if img_path.
RemainingReturned ==
  /\ pc = "remaining" /\ ppc = "return"
  /\ Returned
  /\ IF Truthy(ret[1])
     THEN /\ WriteResult(SuccessRecord(items, ret[1], painting_location, ret[2]))
          /\ pc' = "done"
          /\ UNCHANGED idx
     ELSE /\ idx' = idx + 1
          /\ UNCHANGED << pc, cur_batch_results, writes >>
  /\ UNCHANGED << urls, cur_batch_names_to_imgs, painting_location, invalid_urls >>
  /\ UNCHANGED outside_painting

(***************************************************************************)
(* extract_main_image_from_page.  Each awaited Playwright call returns or  *)
(* raises; what raises is an Exception (PlaywrightTimeout or another).     *)
(* page is "closed" once close() has been awaited on it, whether that call *)
(* returned or raised.                                                     *)
(***************************************************************************)

Raises == { "PlaywrightTimeout", "Exception" }

\* An awaited call inside the try block raises e.
Raise(e) == exc' = e /\ ppc' = "except"

\* page = await browser.new_page()
NewPage ==
  /\ ppc = "new_page"
  /\ new_page_calls' = new_page_calls + 1
  /\ ops' = Append(ops, "new_page")
  /\ \E o \in {"ok", "Exception"} :
       IF o = "ok"
       THEN page' = "open" /\ ppc' = "goto" /\ UNCHANGED exc
       ELSE Raise(o) /\ UNCHANGED page
  /\ UNCHANGED << ret, content, attempted, close_calls, files, dispatcher_vars >>
  /\ UNCHANGED outside_painting

\* A step of the try block that awaits one call on the open page and goes
\* on to the step next when the call returns.
PageStep(here, op, next) ==
  /\ ppc = here
  /\ ops' = Append(ops, op)
  /\ \E o \in {"ok"} \cup Raises :
       IF o = "ok" THEN ppc' = next /\ UNCHANGED exc ELSE Raise(o)
  /\ UNCHANGED << page, ret, attempted, new_page_calls, content, close_calls, files, dispatcher_vars >>
  /\ UNCHANGED outside_painting

\* await page.goto(url)
Goto == PageStep("goto", "goto", "wait_for_load_state")

\* await page.wait_for_load_state("domcontentloaded", timeout=PAGE_LOAD_TIMEOUT_MS)
WaitForLoadState == PageStep("wait_for_load_state", "wait_for_load_state", "inner_text")

\* content = await page.inner_text("body"), then  if _is_captcha_page(content)
InnerText ==
  /\ ppc = "inner_text"
  /\ ops' = Append(ops, "inner_text")
  /\ \/ (\E e \in Raises : Raise(e)) /\ UNCHANGED content
     \/ \E text \in PAGE_TEXTS :
          /\ content' = text
          /\ ppc' = IF text \in CaptchaTexts THEN "captcha_close" ELSE "wait_for_selector"
          /\ UNCHANGED exc
  /\ UNCHANGED << page, ret, attempted, new_page_calls, close_calls, files, dispatcher_vars >>
  /\ UNCHANGED outside_painting

\* Mutant of CaptchaClose: the branch closes the session and does not return.
CaptchaClose_NoReturn ==
  /\ ppc = "captcha_close"
  /\ ops' = Append(ops, "close")
  /\ close_calls' = close_calls + 1
  /\ page' = "closed"
  /\ \E o \in {"ok", "Exception"} :
       IF o = "ok"
       THEN ppc' = "wait_for_selector" /\ UNCHANGED << exc, ret >>
       ELSE Raise(o) /\ UNCHANGED ret
  /\ UNCHANGED << attempted, new_page_calls, content, files, dispatcher_vars >>
  /\ UNCHANGED outside_painting

\* The captcha branch:  await page.close(); return None, None
CaptchaClose ==
  /\ ppc = "captcha_close"
  /\ ops' = Append(ops, "close")
  /\ close_calls' = close_calls + 1
  /\ page' = "closed"
  /\ \E o \in {"ok", "Exception"} :
       IF o = "ok"
       THEN ret' = NoneResult /\ ppc' = "finally" /\ UNCHANGED exc
       ELSE Raise(o) /\ UNCHANGED ret
  /\ UNCHANGED << attempted, new_page_calls, content, files, dispatcher_vars >>
  /\ UNCHANGED outside_painting

\* await page.wait_for_selector("img", timeout=IMAGE_WAIT_TIMEOUT_MS, state="attached")
WaitForSelector == PageStep("wait_for_selector", "wait_for_selector", "wait_for_timeout")

\* await page.wait_for_timeout(DYNAMIC_CONTENT_WAIT_MS)
WaitForTimeout == PageStep("wait_for_timeout", "wait_for_timeout", "accept_cookies")

\* await accept_cookies(page)
AcceptCookies == PageStep("accept_cookies", "accept_cookies", "get_img")

\* img_path, img_url = await get_img(page, base_url=page.url, img_name=painting_name):
\* an image saved as JPEG or under its original extension, (None, None), or an
\* exception out of get_img.
GetImg ==
  /\ ppc = "get_img"
  /\ ops' = Append(ops, "get_img")
  /\ \/ \E img_extension \in {".jpg", ".png"} :
          /\ files' = files \cup {ImgPath(painting_name, img_extension)}
          /\ ret' = << ImgPath(painting_name, img_extension),
                       ResolvedImageUrl(attempted[Len(attempted)].url) >>
          /\ ppc' = "close"
          /\ UNCHANGED exc
     \/ /\ ret' = NoneResult
        /\ ppc' = "close"
        /\ UNCHANGED << files, exc >>
     \/ /\ \E e \in Raises : Raise(e)
        /\ UNCHANGED << files, ret >>
  /\ UNCHANGED << page, attempted, new_page_calls, content, close_calls, dispatcher_vars >>
  /\ UNCHANGED outside_painting

\* await page.close(); return img_path, img_url
ClosePage ==
  /\ ppc = "close"
  /\ ops' = Append(ops, "close")
  /\ close_calls' = close_calls + 1
  /\ page' = "closed"
  /\ \E o \in {"ok", "Exception"} :
       IF o = "ok"
       THEN ppc' = "finally" /\ UNCHANGED << exc, ret >>
       ELSE Raise(o) /\ UNCHANGED ret
  /\ UNCHANGED << attempted, new_page_calls, content, files, dispatcher_vars >>
  /\ UNCHANGED outside_painting

\* Mutant of Except: only PlaywrightTimeout is caught; another exception
\* leaves extract_main_image_from_page and process_a_painting.
Except_OnlyTimeout ==
  /\ ppc = "except"
  /\ ops' = Append(ops, exc)
  /\ exc' = None
  /\ ret' = NoneResult
  /\ IF exc = "PlaywrightTimeout"
     THEN /\ ppc' = "finally"
          /\ UNCHANGED << pc, page >>
     ELSE /\ ppc' = "idle"
          /\ pc' = "raised"
          /\ page' = IF page = None THEN None ELSE "closed"
  /\ UNCHANGED << urls, cur_batch_names_to_imgs, idx, painting_location, invalid_urls, cur_batch_results, writes,
                  attempted, new_page_calls, content, close_calls, files >>
  /\ UNCHANGED outside_painting

\* Mutant of Except: the except clauses return (None, None) themselves and
\* the cleanup is not a finally block, so it is skipped after an exception.
Except_NoCleanup ==
  /\ ppc = "except"
  /\ ops' = Append(ops, exc)
  /\ exc' = None
  /\ ret' = NoneResult
  /\ ppc' = "return"
  /\ UNCHANGED << page, attempted, new_page_calls, content, close_calls, files, dispatcher_vars >>
  /\ UNCHANGED outside_painting

\* except PlaywrightTimeout / except Exception: log, then fall through to the
\* final  return None, None.
Except ==
  /\ ppc = "except"
  /\ ops' = Append(ops, exc)
  /\ exc' = None
  /\ ret' = NoneResult
  /\ ppc' = "finally"
  /\ UNCHANGED << page, attempted, new_page_calls, content, close_calls, files, dispatcher_vars >>
  /\ UNCHANGED outside_painting

\* Mutant of Finally: there is no finally block.
Finally_NoClose ==
  /\ ppc = "finally"
  /\ ppc' = "return"
  /\ UNCHANGED << ops, close_calls, page, exc, ret, attempted, new_page_calls, content, files,
                  dispatcher_vars >>
  /\ UNCHANGED outside_painting

\* finally: if page: try: await page.close() except Exception: pass
Finally ==
  /\ ppc = "finally"
  /\ IF page # None
     THEN /\ ops' = Append(ops, "close")
          /\ close_calls' = close_calls + 1
          /\ page' = "closed"
     ELSE UNCHANGED << ops, close_calls, page >>
  /\ ppc' = "return"
  /\ UNCHANGED << exc, ret, attempted, new_page_calls, content, files, dispatcher_vars >>
  /\ UNCHANGED outside_painting

Next ==
  \/ EntryGuard
  \/ TryWikipediaUrls
  \/ WikipediaReturned
  \/ TryMuseumUrls
  \/ MuseumReturned
  \/ TryRemainingUrls
  \/ RemainingReturned
  \/ NewPage
  \/ Goto
  \/ WaitForLoadState
  \/ InnerText
  \/ CaptchaClose
  \/ WaitForSelector
  \/ WaitForTimeout
  \/ AcceptCookies
  \/ GetImg
  \/ ClosePage
  \/ Except
  \/ Finally

Spec == Init /\ [][Next]_vars

\* The longest candidate list of the fair specification.
MaxFairUrls == 2

InitFair ==
  /\ Init
  /\ Len(urls.items) <= MaxFairUrls

\* process_a_painting under the event loop: the coroutine is resumed whenever
\* the call it awaits has returned or raised, so a step that can be taken is
\* eventually taken.
SpecFair == InitFair /\ [][Next]_vars /\ WF_vars(Next)

(***************************************************************************)
(* get_img on one loaded page, one await or loop turn at a time, with      *)
(* extract_best_image_from_url, download_image_from_url and                *)
(* convert_to_jpeg inlined where get_img calls them.                       *)
(***************************************************************************)

\* What an action of get_img's model leaves alone.
outside_get_img == << painting_vars, batch_vars, cookie_vars, legacy_vars >>

\* process_a_painting is not followed: its variables rest at a call that
\* has not started.
PaintingIdle ==
  /\ urls = [isStr |-> TRUE, text |-> "Unsuccessful search", items |-> <<>>]
  /\ cur_batch_names_to_imgs = PLAQUE_TEXTS
  /\ pc = "entry"
  /\ idx = 1
  /\ painting_location = None
  /\ invalid_urls = {}
  /\ cur_batch_results = << >>
  /\ ppc = "idle"
  /\ page = None
  /\ exc = None
  /\ ret = NoneResult
  /\ attempted = << >>
  /\ writes = 0
  /\ new_page_calls = 0
  /\ content = None
  /\ close_calls = 0
  /\ files = {}
  /\ ops = << >>

InitGetImg ==
  /\ PaintingIdle
  /\ BatchIdle
  /\ CookiesIdle
  /\ LegacyIdle
  /\ img_blocks \in PAGES
  /\ gpc = "query_selector_all"
  /\ gi = 0
  /\ heap = << >>
  /\ srcset_tokens = << >>
  /\ srcset_pairs = << >>
  /\ max_heap = << >>
  /\ image = << None, None, None >>
  /\ response = None
  /\ conversion = None
  /\ get_img_ret = None
  /\ raised = None
  /\ downloads = << >>
  /\ passed = << >>
  /\ written = {}

\* An exception leaves get_img.
GetImgRaise(e) == gpc' = "raised" /\ raised' = e

\* img_to_download = heap[0][2]
img_to_download == heap[1][3]

\* One call of download_image_from_url(url, base_url): the request meets r.
Download(url, r) ==
  /\ response' = r
  /\ image' = download_image_from_url(url, Chars(page_url), r)
  /\ downloads' = Append(downloads, [url |-> Str(url), img_bytes |-> image'[1]])

\* img_blocks = await page.query_selector_all("img"); heap = []
QuerySelectorAll ==
  /\ gpc = "query_selector_all"
  /\ \E o \in {"ok"} \cup Raises :
       IF o = "ok" THEN gpc' = "bounding_box" /\ gi' = 1 /\ UNCHANGED raised
       ELSE GetImgRaise(o) /\ UNCHANGED gi
  /\ UNCHANGED << img_blocks, heap, srcset_tokens, srcset_pairs, max_heap, image,
                  response, conversion, get_img_ret, downloads, passed, written >>
  /\ UNCHANGED outside_get_img

\* One turn of  for i, img_block in enumerate(img_blocks)  (i counted from 1).
BoundingBox ==
  /\ gpc = "bounding_box"
  /\ gi <= Len(img_blocks)
  /\ \E o \in {"ok"} \cup Raises :
       IF o = "ok"
       THEN LET box  == img_blocks[gi].box
                area == box.width * box.height
            IN  /\ heap' = IF box = NoBox THEN heap
                           ELSE IF area = 0 THEN heap
                           ELSE heappush(heap, << -area, gi, img_blocks[gi] >>)
                /\ gi' = gi + 1
                /\ UNCHANGED << gpc, raised >>
       ELSE GetImgRaise(o) /\ UNCHANGED << heap, gi >>
  /\ UNCHANGED << img_blocks, srcset_tokens, srcset_pairs, max_heap, image,
                  response, conversion, get_img_ret, downloads, passed, written >>
  /\ UNCHANGED outside_get_img

\* if not heap: return None, None;  img_to_download = heap[0][2]
SelectImage ==
  /\ gpc = "bounding_box"
  /\ gi > Len(img_blocks)
  /\ IF heap = << >>
     THEN /\ get_img_ret' = NoneResult
          /\ gpc' = "returned"
          /\ UNCHANGED passed
     ELSE /\ passed' = Append(passed, heap[1][2])
          /\ gpc' = "srcset"
          /\ UNCHANGED get_img_ret
  /\ UNCHANGED << img_blocks, gi, heap, srcset_tokens, srcset_pairs, max_heap, image,
                  response, conversion, raised, downloads, written >>
  /\ UNCHANGED outside_get_img

\* Mutant of GetSrcset: the fallback is taken when the tokens that went into
\* pairs are fewer than half of the tokens.
GetSrcset_QuarterPaired ==
  /\ gpc = "srcset"
  /\ \E o \in {"ok"} \cup Raises :
       IF o = "ok"
       THEN LET srcset == get_attribute(img_to_download, "srcset")
                tokens == SrcsetTokens(Chars(srcset))
                paired == SrcsetPairs(tokens, 1, << >>)
            IN  IF ~Truthy(srcset)
                THEN /\ gpc' = "src"
                     /\ UNCHANGED << srcset_tokens, srcset_pairs, max_heap, gi, raised >>
                ELSE IF paired.raises # None
                THEN /\ GetImgRaise(paired.raises)
                     /\ srcset_tokens' = tokens
                     /\ srcset_pairs' = paired.pairs
                     /\ UNCHANGED << max_heap, gi >>
                ELSE /\ srcset_tokens' = tokens
                     /\ srcset_pairs' = paired.pairs
                     /\ IF Len(paired.pairs) * 4 < Len(tokens)
                        THEN /\ gpc' = "walk"
                             /\ gi' = Len(tokens)
                             /\ UNCHANGED max_heap
                        ELSE /\ gpc' = "heappop"
                             /\ max_heap' = heapify([k \in 1..Len(paired.pairs) |->
                                               << -paired.pairs[k][2], paired.pairs[k][1] >>])
                             /\ UNCHANGED gi
                     /\ UNCHANGED raised
       ELSE /\ GetImgRaise(o)
            /\ UNCHANGED << srcset_tokens, srcset_pairs, max_heap, gi >>
  /\ UNCHANGED << img_blocks, heap, image, response, conversion, get_img_ret,
                  downloads, passed, written >>
  /\ UNCHANGED outside_get_img

\* srcset = await img_block.get_attribute("srcset"), the tokens, the pairing
\* loop and the choice between the reverse walk and the heap.
GetSrcset ==
  /\ gpc = "srcset"
  /\ \E o \in {"ok"} \cup Raises :
       IF o = "ok"
       THEN LET srcset == get_attribute(img_to_download, "srcset")
                tokens == SrcsetTokens(Chars(srcset))
                paired == SrcsetPairs(tokens, 1, << >>)
            IN  IF ~Truthy(srcset)
                THEN /\ gpc' = "src"
                     /\ UNCHANGED << srcset_tokens, srcset_pairs, max_heap, gi, raised >>
                ELSE IF paired.raises # None
                THEN /\ GetImgRaise(paired.raises)
                     /\ srcset_tokens' = tokens
                     /\ srcset_pairs' = paired.pairs
                     /\ UNCHANGED << max_heap, gi >>
                ELSE /\ srcset_tokens' = tokens
                     /\ srcset_pairs' = paired.pairs
                     /\ IF Len(paired.pairs) * 2 < Len(tokens)
                        THEN /\ gpc' = "walk"
                             /\ gi' = Len(tokens)
                             /\ UNCHANGED max_heap
                        ELSE /\ gpc' = "heappop"
                             /\ max_heap' = heapify([k \in 1..Len(paired.pairs) |->
                                               << -paired.pairs[k][2], paired.pairs[k][1] >>])
                             /\ UNCHANGED gi
                     /\ UNCHANGED raised
       ELSE /\ GetImgRaise(o)
            /\ UNCHANGED << srcset_tokens, srcset_pairs, max_heap, gi >>
  /\ UNCHANGED << img_blocks, heap, image, response, conversion, get_img_ret,
                  downloads, passed, written >>
  /\ UNCHANGED outside_get_img

\* One turn of  for i in range(len(srcset_tokens) - 1, -1, -1), or its end.
WalkTokens ==
  /\ gpc = "walk"
  /\ IF gi = 0
     THEN /\ gpc' = "src"
          /\ UNCHANGED << gi, image, response, downloads >>
     ELSE IF ~Contains(<<"/">>, srcset_tokens[gi])
     THEN /\ gi' = gi - 1
          /\ UNCHANGED << gpc, image, response, downloads >>
     ELSE \E r \in RESPONSES :
            /\ Download(srcset_tokens[gi], r)
            /\ IF Truthy(image'[1])
               THEN gpc' = "got" /\ UNCHANGED gi
               ELSE gi' = gi - 1 /\ UNCHANGED gpc
  /\ UNCHANGED << img_blocks, heap, srcset_tokens, srcset_pairs, max_heap,
                  conversion, get_img_ret, raised, passed, written >>
  /\ UNCHANGED outside_get_img

\* One turn of  while max_heap, or its end.
HeapPop ==
  /\ gpc = "heappop"
  /\ IF max_heap = << >>
     THEN /\ gpc' = "src"
          /\ UNCHANGED << max_heap, image, response, downloads >>
     ELSE \E r \in RESPONSES :
            /\ max_heap' = heappop(max_heap)[2]
            /\ Download(heappop(max_heap)[1][2], r)
            /\ gpc' = IF Truthy(image'[1]) THEN "got" ELSE gpc
  /\ UNCHANGED << img_blocks, gi, heap, srcset_tokens, srcset_pairs,
                  conversion, get_img_ret, raised, passed, written >>
  /\ UNCHANGED outside_get_img

\* src = await img_block.get_attribute("src") and its download.
GetSrc ==
  /\ gpc = "src"
  /\ \E o \in {"ok"} \cup Raises :
       IF o = "ok"
       THEN LET src == get_attribute(img_to_download, "src")
            IN  IF Truthy(src)
                THEN \E r \in RESPONSES :
                       /\ Download(Chars(src), r)
                       /\ gpc' = IF Truthy(image'[1]) THEN "got" ELSE "evaluate"
                       /\ UNCHANGED raised
                ELSE /\ gpc' = "evaluate"
                     /\ UNCHANGED << image, response, downloads, raised >>
       ELSE GetImgRaise(o) /\ UNCHANGED << image, response, downloads >>
  /\ UNCHANGED << img_blocks, gi, heap, srcset_tokens, srcset_pairs, max_heap,
                  conversion, get_img_ret, passed, written >>
  /\ UNCHANGED outside_get_img

\* attrs = await img_block.evaluate(...)
Evaluate ==
  /\ gpc = "evaluate"
  /\ \E o \in {"ok"} \cup Raises :
       IF o = "ok" THEN gpc' = "attrs" /\ gi' = 1 /\ UNCHANGED raised
       ELSE GetImgRaise(o) /\ UNCHANGED gi
  /\ UNCHANGED << img_blocks, heap, srcset_tokens, srcset_pairs, max_heap, image,
                  response, conversion, get_img_ret, downloads, passed, written >>
  /\ UNCHANGED outside_get_img

\* One turn of  for key, val in attrs.items(), or its end and the
\* return None, None, None  after it.  Every attribute value is a str.
OtherAttributes ==
  /\ gpc = "attrs"
  /\ IF gi > Len(img_to_download.attrs)
     THEN /\ image' = << None, None, None >>
          /\ gpc' = "got"
          /\ UNCHANGED << gi, response, downloads >>
     ELSE LET key == img_to_download.attrs[gi][1]
              val == img_to_download.attrs[gi][2]
          IN  IF key \in SkippedKeys
              THEN /\ gi' = gi + 1
                   /\ UNCHANGED << gpc, image, response, downloads >>
              ELSE \E r \in RESPONSES :
                     /\ Download(Chars(val), r)
                     /\ IF Truthy(image'[1])
                        THEN gpc' = "got" /\ UNCHANGED gi
                        ELSE gi' = gi + 1 /\ UNCHANGED gpc
  /\ UNCHANGED << img_blocks, heap, srcset_tokens, srcset_pairs, max_heap,
                  conversion, get_img_ret, raised, passed, written >>
  /\ UNCHANGED outside_get_img

\* Mutant of SaveImage: when the resolver found no image, get_img pops the
\* heap and hands the next element to the resolver.
SaveImage_NextElement ==
  /\ gpc = "got"
  /\ IF Truthy(image[1]) /\ Truthy(image[2]) /\ Truthy(image[3])
     THEN \E pil \in PIL_OUTCOMES :
            LET converted == convert_to_jpeg(image[1], image[3], pil)
                img_path  == ImgPath(painting_name, converted.value[2])
            IN  /\ conversion' = pil
                /\ IF converted.raises # None
                   THEN /\ GetImgRaise(converted.raises)
                        /\ UNCHANGED << written, get_img_ret >>
                   ELSE /\ written' = written \cup {[path |-> img_path, bytes |-> converted.value[1]]}
                        /\ get_img_ret' = << img_path, image[2] >>
                        /\ gpc' = "returned"
                        /\ UNCHANGED raised
                /\ UNCHANGED << heap, passed >>
     ELSE IF Len(heap) > 1
     THEN /\ heap' = heappop(heap)[2]
          /\ passed' = Append(passed, heap'[1][2])
          /\ gpc' = "srcset"
          /\ UNCHANGED << conversion, written, raised, get_img_ret >>
     ELSE /\ get_img_ret' = NoneResult
          /\ gpc' = "returned"
          /\ UNCHANGED << conversion, written, raised, heap, passed >>
  /\ UNCHANGED << img_blocks, gi, srcset_tokens, srcset_pairs, max_heap, image,
                  response, downloads >>
  /\ UNCHANGED outside_get_img

\* Back in get_img with (img_bytes, img_url, img_extension): convert_to_jpeg,
\* the file write and the return.
SaveImage ==
  /\ gpc = "got"
  /\ IF Truthy(image[1]) /\ Truthy(image[2]) /\ Truthy(image[3])
     THEN \E pil \in PIL_OUTCOMES :
            LET converted == convert_to_jpeg(image[1], image[3], pil)
                img_path  == ImgPath(painting_name, converted.value[2])
            IN  /\ conversion' = pil
                /\ IF converted.raises # None
                   THEN /\ GetImgRaise(converted.raises)
                        /\ UNCHANGED << written, get_img_ret >>
                   ELSE /\ written' = written \cup {[path |-> img_path, bytes |-> converted.value[1]]}
                        /\ get_img_ret' = << img_path, image[2] >>
                        /\ gpc' = "returned"
                        /\ UNCHANGED raised
     ELSE /\ get_img_ret' = NoneResult
          /\ gpc' = "returned"
          /\ UNCHANGED << conversion, written, raised >>
  /\ UNCHANGED << img_blocks, gi, heap, srcset_tokens, srcset_pairs, max_heap, image,
                  response, downloads, passed >>
  /\ UNCHANGED outside_get_img

NextGetImg ==
  \/ QuerySelectorAll
  \/ BoundingBox
  \/ SelectImage
  \/ GetSrcset
  \/ WalkTokens
  \/ HeapPop
  \/ GetSrc
  \/ Evaluate
  \/ OtherAttributes
  \/ SaveImage

SpecGetImg == InitGetImg /\ [][NextGetImg]_vars


(***************************************************************************)
(* Concurrent process_a_painting tasks.  asyncio runs one task at a time   *)
(* and switches tasks only at an await, so a step of a task is the code    *)
(* between two awaits; extract_main_image_from_page, which touches neither *)
(* table, is the await and its result.                                     *)
(***************************************************************************)

\* Most tasks followed running all at once.
MaxTasks == 3

\* Most paintings of a batch handed to the batch controller.
MaxPaintings == 4

\* config.py
ASYNC_GROUP_SIZE == 3

\* Display names of paintings, pairwise distinct.
PAINTINGS ==
  << "Mona Lisa", "The Starry Night", "The Kiss", "Water Lilies", "Guernica", "The Scream" >>

\* The urls arguments the tasks are given.
TASK_URLS ==
  { [isStr |-> TRUE, text |-> "Unsuccessful search", items |-> <<>>],
    [isStr |-> FALSE, text |-> "", items |-> << "en.wikipedia.org/wiki/Mona_Lisa" >>],
    [isStr |-> FALSE, text |-> "", items |-> << "www.sfmoma.org/artwork/98.562", "example.com/x" >>] }

\* What an action of the tasks' model leaves alone.
outside_batch == << painting_vars, get_img_vars, cookie_vars, legacy_vars >>

Tasks == 1..Len(names)

\* cur_batch_names_to_imgs[painting_name] for the paintings of the batch.
PlaqueText(painting) == painting \o ", plaque text"

\* f"{EXTRACTED_IMAGES_DIR}/{img_name}{img_extension}" for a converted image.
TaskImgPath(painting) == EXTRACTED_IMAGES_DIR \o "/" \o painting \o ".jpg"

\* A record of process_a_painting with the task's plaque text in front.
TaskRecord(t, record) == [record EXCEPT ![1] = PlaqueText(names[t])]

\* Mutant of ResultKey: every task writes under the first painting's name.
ResultKey_First(t) == names[1]

\* The key of  cur_batch_results[painting_name] = ...  in task t.
ResultKey(t) == names[t]

\* cur_batch_results[painting_name] = (cur_batch_names_to_imgs[painting_name], ...)
TaskWrite(t, record) ==
  /\ batch_results' = (ResultKey(t) :> TaskRecord(t, record)) @@ batch_results
  /\ accesses' = accesses \cup
       { [task |-> t, table |-> "cur_batch_names_to_imgs", key |-> names[t], op |-> "read"],
         [task |-> t, table |-> "cur_batch_results", key |-> ResultKey(t), op |-> "write"] }

\* The tasks given to the event loop: tasks paintings with their urls, each
\* at position.
InitTasks(tasks, position) ==
  /\ names = SubSeq(PAINTINGS, 1, tasks)
  /\ task_urls \in [1..tasks -> TASK_URLS]
  /\ task_pc = [t \in 1..tasks |-> position]
  /\ task_idx = [t \in 1..tasks |-> 1]
  /\ task_location = [t \in 1..tasks |-> None]
  /\ task_invalid = [t \in 1..tasks |-> {}]
  /\ task_awaiting = [t \in 1..tasks |-> FALSE]
  /\ task_log = [t \in 1..tasks |-> << >>]
  /\ batch_results = << >>
  /\ accesses = {}

\* Every task has been created and none has run yet.
InitConcurrent ==
  /\ PaintingIdle
  /\ GetImgIdle
  /\ CookiesIdle
  /\ LegacyIdle
  /\ \E tasks \in 1..MaxTasks : InitTasks(tasks, "entry")

\* process_a_painting up to its first tier (lines 497-510).
TaskEntry(t) ==
  /\ task_pc[t] = "entry"
  /\ IF Falsy(task_urls[t]) \/ task_urls[t].isStr
     THEN /\ TaskWrite(t, NoUrlsRecord)
          /\ task_pc' = [task_pc EXCEPT ![t] = "done"]
          /\ UNCHANGED task_location
     ELSE /\ task_location' = [task_location EXCEPT ![t] = _detect_museum_from_urls(task_urls[t].items)]
          /\ task_pc' = [task_pc EXCEPT ![t] = "wikipedia"]
          /\ UNCHANGED << batch_results, accesses >>
  /\ UNCHANGED << names, task_urls, task_idx, task_invalid, task_awaiting, task_log >>
  /\ UNCHANGED outside_batch

\* The running tier attempts url.
TaskEligible(t, url) ==
  CASE task_pc[t] = "wikipedia" -> url \in WikipediaUrls
    [] task_pc[t] = "museum"    -> MuseumEligible(url, task_invalid[t])
    [] task_pc[t] = "remaining" -> RemainingEligible(url, task_invalid[t])

\* One turn of the running tier's  for url in urls  up to its await, or the
\* end of the loop: the next tier, and after the last one the record of
\* lines 543-549.
TaskTry(t) ==
  /\ task_pc[t] \in {"wikipedia", "museum", "remaining"}
  /\ ~task_awaiting[t]
  /\ IF task_idx[t] > Len(task_urls[t].items)
     THEN /\ IF task_pc[t] = "remaining"
             THEN /\ TaskWrite(t, ExhaustedRecord(task_location[t]))
                  /\ task_pc' = [task_pc EXCEPT ![t] = "done"]
                  /\ UNCHANGED task_idx
             ELSE /\ task_pc' = [task_pc EXCEPT ![t] =
                                   IF task_pc[t] = "wikipedia" THEN "museum" ELSE "remaining"]
                  /\ task_idx' = [task_idx EXCEPT ![t] = 1]
                  /\ UNCHANGED << batch_results, accesses >>
          /\ UNCHANGED task_awaiting
     ELSE IF TaskEligible(t, task_urls[t].items[task_idx[t]])
     THEN /\ task_awaiting' = [task_awaiting EXCEPT ![t] = TRUE]
          /\ UNCHANGED << task_pc, task_idx, batch_results, accesses >>
     ELSE /\ task_idx' = [task_idx EXCEPT ![t] = task_idx[t] + 1]
          /\ UNCHANGED << task_pc, task_awaiting, batch_results, accesses >>
  /\ UNCHANGED << names, task_urls, task_location, task_invalid, task_log >>
  /\ UNCHANGED outside_batch

\* extract_main_image_from_page returns to the tier helper, and
\* process_a_painting's  if img_path  after it.
TaskReturned(t) ==
  /\ task_awaiting[t]
  /\ \E saved \in BOOLEAN :
       LET url      == task_urls[t].items[task_idx[t]]
           img_path == IF saved THEN TaskImgPath(names[t]) ELSE None
           img_url  == IF saved THEN ResolvedImageUrl(url) ELSE None
           location == IF task_pc[t] = "museum" THEN MuseumNameOf[url] ELSE task_location[t]
       IN  /\ task_log' = [task_log EXCEPT ![t] =
                             Append(@, [tier |-> task_pc[t], url |-> url, img_path |-> img_path])]
           /\ IF Truthy(img_path)
              THEN /\ TaskWrite(t, SuccessRecord(task_urls[t].items, img_path, location, img_url))
                   /\ task_pc' = [task_pc EXCEPT ![t] = "done"]
                   /\ UNCHANGED << task_idx, task_invalid >>
              ELSE /\ task_invalid' = [task_invalid EXCEPT ![t] =
                                         IF task_pc[t] = "remaining" THEN @ ELSE @ \cup {url}]
                   /\ task_idx' = [task_idx EXCEPT ![t] = task_idx[t] + 1]
                   /\ UNCHANGED << task_pc, batch_results, accesses >>
  /\ task_awaiting' = [task_awaiting EXCEPT ![t] = FALSE]
  /\ UNCHANGED << names, task_urls, task_location >>
  /\ UNCHANGED outside_batch

Enter == \E t \in Tasks : TaskEntry(t)

Try == \E t \in Tasks : TaskTry(t)

Resume == \E t \in Tasks : TaskReturned(t)

NextConcurrent ==
  \/ Enter
  \/ Try
  \/ Resume

SpecConcurrent == InitConcurrent /\ [][NextConcurrent]_vars


(***************************************************************************)
(* The batch controller.  Its code is not part of the sources at hand; it  *)
(* is modelled from the specification's section 4.6: the paintings are cut *)
(* into consecutive groups of ASYNC_GROUP_SIZE, the dispatches of a group  *)
(* are started together, and the controller waits for all of them before   *)
(* it starts the next group.                                               *)
(***************************************************************************)

\* The group painting t belongs to.
GroupOf(t) == (t - 1) \div ASYNC_GROUP_SIZE + 1

\* The paintings whose dispatch has not been started.
Waiting == { t \in Tasks : task_pc[t] = "waiting" }

\* The first group with a painting still waiting.
NextGroup == Min({ GroupOf(t) : t \in Waiting })

\* The batch is handed to the controller: no dispatch has been started.
InitBatch ==
  /\ PaintingIdle
  /\ GetImgIdle
  /\ CookiesIdle
  /\ LegacyIdle
  /\ \E paintings \in 1..MaxPaintings : InitTasks(paintings, "waiting")

\* Mutant of StartGroup: the controller does not wait for the running group.
StartGroup_NoBarrier ==
  /\ Waiting # {}
  /\ task_pc' = [t \in Tasks |-> IF t \in Waiting /\ GroupOf(t) = NextGroup
                                 THEN "entry" ELSE task_pc[t]]
  /\ UNCHANGED << names, task_urls, task_idx, task_location, task_invalid,
                  task_awaiting, task_log, batch_results, accesses >>
  /\ UNCHANGED outside_batch

\* The controller starts the dispatches of the next group once every
\* dispatch started before has reached its end.
StartGroup ==
  /\ Waiting # {}
  /\ \A t \in Tasks \ Waiting : task_pc[t] = "done"
  /\ task_pc' = [t \in Tasks |-> IF t \in Waiting /\ GroupOf(t) = NextGroup
                                 THEN "entry" ELSE task_pc[t]]
  /\ UNCHANGED << names, task_urls, task_idx, task_location, task_invalid,
                  task_awaiting, task_log, batch_results, accesses >>
  /\ UNCHANGED outside_batch

NextBatch ==
  \/ StartGroup
  \/ Enter
  \/ Try
  \/ Resume

SpecBatch == InitBatch /\ [][NextBatch]_vars

(***************************************************************************)
(* accept_cookies on one loaded page, one await at a time, and the lines   *)
(* of extract_main_image_from_page around the call.  An awaited Playwright *)
(* call returns or raises.                                                 *)
(***************************************************************************)

\* Most clickable elements on a page.
MaxButtons == 2

\* The characters \w matches among those of the model's markup.
WordChars ==
  { LowerLetters[k] : k \in 1..26 } \cup { UpperLetters[k] : k \in 1..26 }
    \cup { Digits[k] : k \in 1..10 } \cup { "_" }

\* pattern.search(html) for pattern = \b(keyword|keyword|...)\b : some
\* keyword occurs with no word character right before or right after it.
pattern_search(html) ==
  \E k \in 1..Len(COOKIE_CONSENT_KEYWORDS) : \E i \in 0..Len(html) :
    LET keyword == COOKIE_CONSENT_KEYWORDS[k] IN
    /\ i + Len(keyword) <= Len(html)
    /\ SubSeq(html, i + 1, i + Len(keyword)) = keyword
    /\ i = 0 \/ html[i] \notin WordChars
    /\ i + Len(keyword) = Len(html) \/ html[i + Len(keyword) + 1] \notin WordChars

\* The clickable elements a page may have: is_visible(), the value of the
\* disabled attribute (None when the element has none) and the outerHTML.
BUTTONS ==
  { [visible |-> TRUE, disabled |-> None, html |-> "<button>Accept all</button>"],
    [visible |-> TRUE, disabled |-> None, html |-> "<button>Search</button>"],
    [visible |-> TRUE, disabled |-> None, html |-> "<a role=\"button\">Unacceptable</a>"],
    [visible |-> TRUE, disabled |-> "", html |-> "<button disabled=\"\">Accept</button>"],
    [visible |-> TRUE, disabled |-> "disabled", html |-> "<button disabled=\"disabled\">Allow</button>"],
    [visible |-> FALSE, disabled |-> None, html |-> "<input type=\"submit\" value=\"Zustimmen\">"] }

\* The elements for which  pattern.search(html.lower())  finds a match.
Matching == { b \in BUTTONS : pattern_search(lower(Chars(b.html))) }

\* How  await button.click()  may end: Playwright waits for the element to be
\* enabled, so the click of an element with a disabled attribute times out.
ClickOutcomes(b) == IF b.disabled # None THEN {"Exception"} ELSE {"ok", "Exception"}

InitCookies ==
  /\ PaintingIdle
  /\ GetImgIdle
  /\ BatchIdle
  /\ LegacyIdle
  /\ all_buttons \in SeqsUpTo(BUTTONS, MaxButtons)
  /\ cpc = "query_selector_all"
  /\ ci = 0
  /\ filtered_buttons = << >>
  /\ clicks = << >>
  /\ cookies_raised = None
  /\ after_cookies = None

outside_cookies == << painting_vars, get_img_vars, batch_vars, legacy_vars >>

\* An awaited call outside the try block raises: the exception leaves
\* accept_cookies.
CookiesRaise(e) == cpc' = "raised" /\ cookies_raised' = e

\* for button in filtered_buttons, at position j: the loop body, or the end
\* of accept_cookies.
ClickLoopAt(j, filtered) ==
  /\ ci' = j
  /\ cpc' = IF j <= Len(filtered) THEN "evaluate" ELSE "returned"

\* for b in all_buttons, at position i: the loop body, or the second loop.
FilterLoopAt(i, filtered) ==
  IF i <= Len(all_buttons)
  THEN ci' = i /\ cpc' = "is_visible"
  ELSE ClickLoopAt(1, filtered)

\* all_buttons = await page.query_selector_all(...); filtered_buttons = []
CookiesQuerySelectorAll ==
  /\ cpc = "query_selector_all"
  /\ \E o \in {"ok", "Exception"} :
       IF o = "ok"
       THEN FilterLoopAt(1, << >>) /\ UNCHANGED cookies_raised
       ELSE CookiesRaise(o) /\ UNCHANGED ci
  /\ UNCHANGED << all_buttons, filtered_buttons, clicks, after_cookies >>
  /\ UNCHANGED outside_cookies

\* if await b.is_visible():
IsVisible ==
  /\ cpc = "is_visible"
  /\ \E o \in {"ok", "Exception"} :
       IF o = "ok"
       THEN /\ IF all_buttons[ci].visible
               THEN cpc' = "get_attribute" /\ UNCHANGED ci
               ELSE FilterLoopAt(ci + 1, filtered_buttons)
            /\ UNCHANGED cookies_raised
       ELSE CookiesRaise(o) /\ UNCHANGED ci
  /\ UNCHANGED << all_buttons, filtered_buttons, clicks, after_cookies >>
  /\ UNCHANGED outside_cookies

\* disabled = await b.get_attribute("disabled")
\* if not disabled: filtered_buttons.append(b)
GetAttributeDisabled ==
  /\ cpc = "get_attribute"
  /\ \E o \in {"ok", "Exception"} :
       IF o = "ok"
       THEN LET disabled == all_buttons[ci].disabled
                filtered == IF ~Truthy(disabled)
                            THEN Append(filtered_buttons, ci)
                            ELSE filtered_buttons
            IN  /\ filtered_buttons' = filtered
                /\ FilterLoopAt(ci + 1, filtered)
                /\ UNCHANGED cookies_raised
       ELSE CookiesRaise(o) /\ UNCHANGED << ci, filtered_buttons >>
  /\ UNCHANGED << all_buttons, clicks, after_cookies >>
  /\ UNCHANGED outside_cookies

\* try: html = await button.evaluate("el => el.outerHTML")
\*      if pattern.search(html.lower()):
\* except Exception: continue
EvaluateOuterHTML ==
  /\ cpc = "evaluate"
  /\ \E o \in {"ok", "Exception"} :
       IF o = "ok" /\ all_buttons[filtered_buttons[ci]] \in Matching
       THEN cpc' = "click" /\ UNCHANGED ci
       ELSE ClickLoopAt(ci + 1, filtered_buttons)
  /\ UNCHANGED << all_buttons, filtered_buttons, clicks, cookies_raised, after_cookies >>
  /\ UNCHANGED outside_cookies

\* await button.click(); return      except Exception: continue
Click ==
  /\ cpc = "click"
  /\ \E o \in ClickOutcomes(all_buttons[filtered_buttons[ci]]) :
       /\ clicks' = Append(clicks, [button |-> filtered_buttons[ci], ok |-> o = "ok"])
       /\ IF o = "ok"
          THEN cpc' = "returned" /\ UNCHANGED ci
          ELSE ClickLoopAt(ci + 1, filtered_buttons)
  /\ UNCHANGED << all_buttons, filtered_buttons, cookies_raised, after_cookies >>
  /\ UNCHANGED outside_cookies

\* extract_main_image_from_page after  await accept_cookies(page):  get_img
\* is called when accept_cookies returned; an exception out of it is caught
\* by  except Exception  and the attempt returns (None, None).
AfterCookies ==
  /\ cpc \in {"returned", "raised"}
  /\ cpc' = "done"
  /\ after_cookies' = IF cpc = "returned" THEN "get_img" ELSE "except"
  /\ UNCHANGED << all_buttons, ci, filtered_buttons, clicks, cookies_raised >>
  /\ UNCHANGED outside_cookies

NextCookies ==
  \/ CookiesQuerySelectorAll
  \/ IsVisible
  \/ GetAttributeDisabled
  \/ EvaluateOuterHTML
  \/ Click
  \/ AfterCookies

SpecCookies == InitCookies /\ [][NextCookies]_vars

(***************************************************************************)
(* The legacy module src/web_scrapping.py: process_a_painting, one loop    *)
(* turn at a time.  A call of its extract_main_image_from_page opens a     *)
(* page and returns an image path or None; it raises nothing (bare except).*)
(***************************************************************************)

\* visited_museums: the same twenty entries, in the same order, as
\* KNOWN_MUSEUMS of the package.
visited_museums == KNOWN_MUSEUMS

\* What  for url in urls  yields: the items of a list or tuple, and the
\* characters of a string.
LegacyItems ==
  IF legacy_urls.isStr THEN Chars(legacy_urls.text) ELSE legacy_urls.items

\* Every value the legacy loops may hold in url, with its characters.
LegacyUrlValues == URLS \cup { Chars("Unsuccessful search")[k] : k \in 1..Len(Chars("Unsuccessful search")) }

UrlChars(url) == IF url \in URLS THEN Chars(url) ELSE << url >>

\* "wikipedia" in url, computed once per value.
LegacyWikipediaUrls ==
  { u \in LegacyUrlValues : Contains(<<"w", "i", "k", "i", "p", "e", "d", "i", "a">>, UrlChars(u)) }

\* The positions of the visited_museums keys that occur in url, computed
\* once per value.
LegacyMuseumKeys ==
  [u \in LegacyUrlValues |->
     { k \in 1..Len(visited_museums) : Contains(visited_museums[k].domain, UrlChars(u)) }]

\* The scan before the tiers: the name under the first key, in dict order,
\* that occurs in the first URL in which any key occurs.
LegacyDetect(list) ==
  IF \E i \in 1..Len(list) : LegacyMuseumKeys[list[i]] # {}
  THEN visited_museums[Min(LegacyMuseumKeys[
         list[Min({ i \in 1..Len(list) : LegacyMuseumKeys[list[i]] # {} })]])].name
  ELSE "Unknown location"

\* How a call of extract_main_image_from_page may end: page.goto raises on a
\* string that is no URL, and the bare except returns (None, None).
LegacyOutcomes(url) == IF url \in URLS THEN {"saved", "failed"} ELSE {"failed"}

\* f"final_results/extracted_images/{img_name}{img_extension}"
LegacyImgPath == "final_results/extracted_images/" \o painting_name \o ".jpg"

LegacyNoUrlsRecord ==
  << PLAQUE_TEXTS[painting_name], EmptyList,
     "No image was downloaded (no urls were found).",
     "Unknown location",
     "No url to download the image was located." >>

LegacySuccessRecord(url, location) ==
  << PLAQUE_TEXTS[painting_name], LegacyImgPath, url, location, ResolvedImageUrl(url) >>

LegacyExhaustedRecord(location) ==
  << PLAQUE_TEXTS[painting_name], EmptyList,
     "No image was downloaded even though some urls were found.",
     location, "" >>

\* cur_batch_results[painting_name] = record
LegacyWrite(record) == legacy_results' = (painting_name :> record) @@ legacy_results

\* img_path, img_url = await extract_main_image_from_page(painting_name, url, browser)
LegacyCall(tier, url, outcome) ==
  legacy_attempts' = Append(legacy_attempts,
                            [tier |-> tier, url |-> url, saved |-> outcome = "saved"])

InitLegacy ==
  /\ PaintingIdle
  /\ GetImgIdle
  /\ BatchIdle
  /\ CookiesIdle
  /\ legacy_urls \in UrlArguments
  /\ legacy_pc = "entry"
  /\ legacy_idx = 1
  /\ legacy_key = 1
  /\ legacy_location = "Unknown location"
  /\ legacy_invalid = {}
  /\ legacy_results = << >>
  /\ legacy_attempts = << >>

outside_legacy == << painting_vars, get_img_vars, batch_vars, cookie_vars >>

\* if not urls: ... return;  then the scan for the painting's location.
LegacyEntryGuard ==
  /\ legacy_pc = "entry"
  /\ IF Falsy(legacy_urls)
     THEN /\ LegacyWrite(LegacyNoUrlsRecord)
          /\ legacy_pc' = "done"
          /\ UNCHANGED legacy_location
     ELSE /\ legacy_location' = LegacyDetect(LegacyItems)
          /\ legacy_pc' = "wikipedia"
          /\ UNCHANGED legacy_results
  /\ UNCHANGED << legacy_urls, legacy_idx, legacy_key, legacy_invalid, legacy_attempts >>
  /\ UNCHANGED outside_legacy

\* 1. One turn of  for url in urls: if "wikipedia" in url.
LegacyTryWikipedia ==
  /\ legacy_pc = "wikipedia"
  /\ IF legacy_idx > Len(LegacyItems)
     THEN /\ legacy_pc' = "museum"
          /\ legacy_idx' = 1
          /\ UNCHANGED << legacy_invalid, legacy_results, legacy_attempts >>
     ELSE LET url == LegacyItems[legacy_idx] IN
          IF url \in LegacyWikipediaUrls
          THEN \E o \in LegacyOutcomes(url) :
                 /\ LegacyCall("wikipedia", url, o)
                 /\ IF o = "saved"
                    THEN /\ LegacyWrite(LegacySuccessRecord(url, legacy_location))
                         /\ legacy_pc' = "done"
                         /\ UNCHANGED << legacy_idx, legacy_invalid >>
                    ELSE /\ legacy_invalid' = legacy_invalid \cup {url}
                         /\ legacy_idx' = legacy_idx + 1
                         /\ UNCHANGED << legacy_pc, legacy_results >>
          ELSE /\ legacy_idx' = legacy_idx + 1
               /\ UNCHANGED << legacy_pc, legacy_invalid, legacy_results, legacy_attempts >>
  /\ UNCHANGED << legacy_urls, legacy_key, legacy_location >>
  /\ UNCHANGED outside_legacy

\* 2. for url in urls: for museum_domain in visited_museums: up to the next
\* key that occurs in url and the call made for it, or to the next url.
LegacyTryMuseum ==
  /\ legacy_pc = "museum"
  /\ IF legacy_idx > Len(LegacyItems)
     THEN /\ legacy_pc' = "remaining"
          /\ legacy_idx' = 1
          /\ UNCHANGED << legacy_key, legacy_location, legacy_invalid, legacy_results,
                          legacy_attempts >>
     ELSE LET url   == LegacyItems[legacy_idx]
              later == { k \in LegacyMuseumKeys[url] : k >= legacy_key }
          IN  IF later = {}
              THEN /\ legacy_idx' = legacy_idx + 1
                   /\ legacy_key' = 1
                   /\ UNCHANGED << legacy_pc, legacy_location, legacy_invalid,
                                   legacy_results, legacy_attempts >>
              ELSE \E o \in LegacyOutcomes(url) :
                     /\ legacy_location' = visited_museums[Min(later)].name
                     /\ LegacyCall("museum", url, o)
                     /\ IF o = "saved"
                        THEN /\ LegacyWrite(LegacySuccessRecord(url, legacy_location'))
                             /\ legacy_pc' = "done"
                             /\ UNCHANGED << legacy_idx, legacy_key, legacy_invalid >>
                        ELSE /\ legacy_invalid' = legacy_invalid \cup {url}
                             /\ legacy_key' = Min(later) + 1
                             /\ UNCHANGED << legacy_pc, legacy_idx, legacy_results >>
  /\ UNCHANGED legacy_urls
  /\ UNCHANGED outside_legacy

\* 3. One turn of  for url in urls: if url in invalid_urls: continue,  and
\* 4. the record written when the loop ends.
LegacyTryRemaining ==
  /\ legacy_pc = "remaining"
  /\ IF legacy_idx > Len(LegacyItems)
     THEN /\ LegacyWrite(LegacyExhaustedRecord(legacy_location))
          /\ legacy_pc' = "done"
          /\ UNCHANGED << legacy_idx, legacy_attempts >>
     ELSE LET url == LegacyItems[legacy_idx] IN
          IF url \in legacy_invalid
          THEN /\ legacy_idx' = legacy_idx + 1
               /\ UNCHANGED << legacy_pc, legacy_results, legacy_attempts >>
          ELSE \E o \in LegacyOutcomes(url) :
                 /\ LegacyCall("remaining", url, o)
                 /\ IF o = "saved"
                    THEN /\ LegacyWrite(LegacySuccessRecord(url, legacy_location))
                         /\ legacy_pc' = "done"
                         /\ UNCHANGED legacy_idx
                    ELSE /\ legacy_idx' = legacy_idx + 1
                         /\ UNCHANGED << legacy_pc, legacy_results >>
  /\ UNCHANGED << legacy_urls, legacy_key, legacy_location, legacy_invalid >>
  /\ UNCHANGED outside_legacy

NextLegacy ==
  \/ LegacyEntryGuard
  \/ LegacyTryWikipedia
  \/ LegacyTryMuseum
  \/ LegacyTryRemaining

SpecLegacy == InitLegacy /\ [][NextLegacy]_vars


(***************************************************************************)
(* Properties                                                              *)
(***************************************************************************)

Done == pc = "done"

\* The record in the painting's slot of the result table.
Record == cur_batch_results[painting_name]

\* The urls argument is a list with at least one URL.
NonEmptyList == ~urls.isStr /\ urls.items # << >>

\* The entries of the attempt log.
Attempts == 1..Len(attempted)

Failed(i) == attempted[i].img_path \in {None, ""}

Succeeded(i) == attempted[i].img_path \notin {None, "", "pending"}

\* The URLs in which some known-institution keyword occurs, and for each the
\* display name of the first table entry whose keyword occurs in it.
MatchingUrls == { u \in URLS : MuseumMatches(u) # {} }

FirstEntryLabel ==
  [u \in MatchingUrls |->
     KNOWN_MUSEUMS[CHOOSE k \in MuseumMatches(u) : \A m \in MuseumMatches(u) : k <= m].name]

\* The label of the first URL of the list, in list order, in which some
\* known-institution keyword occurs; "Unknown location" when there is none.
FirstMatchLabel ==
  IF \E i \in 1..Len(items) : items[i] \in MatchingUrls
  THEN LET i == CHOOSE k \in 1..Len(items) :
                  /\ items[k] \in MatchingUrls
                  /\ \A j \in 1..(k - 1) : items[j] \notin MatchingUrls
       IN  FirstEntryLabel[items[i]]
  ELSE "Unknown location"

\* C1: when the urls argument is empty or is a string, process_a_painting
\* writes the fixed "no urls were found" record with location "Unknown
\* location", and browser.new_page is never called and no URL is attempted.
C1_NoCandidates ==
  (urls.isStr \/ urls.items = << >>) =>
     /\ new_page_calls = 0
     /\ attempted = << >>
     /\ ppc = "idle"
     /\ pc \in {"entry", "done"}
     /\ Done =>
          /\ painting_name \in DOMAIN cur_batch_results
          /\ Record[2] = EmptyList
          /\ Record[3] = "No image was downloaded (no urls were found)."
          /\ Record[4] = "Unknown location"

C1_Witness == Done /\ urls.isStr /\ writes = 1

\* C2: once an attempt has returned a non-empty image path no further
\* candidate URL is opened: every attempt but the last one in the log has
\* failed, and a success ends process_a_painting at once.
C2_ShortCircuit ==
  /\ \A i \in Attempts : i < Len(attempted) => Failed(i)
  /\ \A i \in Attempts : Succeeded(i) => Done /\ ppc = "idle"

\* A wikipedia URL succeeded while a known-institution URL and another URL
\* of the list were never attempted.
C2_Witness ==
  /\ Done
  /\ Len(attempted) = 1
  /\ attempted[1].tier = "wikipedia"
  /\ Succeeded(1)
  /\ \E j \in 1..Len(items) : items[j] \notin WikipediaUrls /\ MuseumNameOf[items[j]] # None
  /\ \E j \in 1..Len(items) : items[j] \notin WikipediaUrls /\ MuseumNameOf[items[j]] = None

\* C3: a URL that failed in an earlier tier is never attempted again in a
\* later tier of the same painting.
C3_NoRetryAcrossTiers ==
  \A i, j \in Attempts :
    (i < j /\ attempted[i].tier # attempted[j].tier) => attempted[i].url # attempted[j].url

\* A wikipedia URL that also contains an institution keyword failed in the
\* first tier, and the two later tiers ran to their end without it.
C3_Witness ==
  /\ Done
  /\ Len(attempted) = 1
  /\ attempted[1].tier = "wikipedia"
  /\ Failed(1)
  /\ MuseumNameOf[attempted[1].url] # None
  /\ Record[2] = EmptyList

\* C4: a call of process_a_painting that has run to completion has written
\* the painting's slot exactly once, and nothing is written before that.
C4_WrittenExactlyOnce ==
  /\ Done => writes = 1 /\ painting_name \in DOMAIN cur_batch_results
  /\ ~Done => writes = 0 /\ painting_name \notin DOMAIN cur_batch_results

\* Written by the last tier after the two earlier tiers failed.
C4_Witness ==
  /\ Done
  /\ writes = 1
  /\ Len(attempted) = 3
  /\ attempted[3].tier = "remaining"
  /\ Succeeded(3)

\* C5 as stated: whenever the list is non-empty the third component of the
\* record is the first URL of the list, whether or not any URL supplied an
\* image.
C5_Original ==
  (Done /\ NonEmptyList) => Record[3] = items[1]

\* C5 amended: when an image was saved the third component is the first URL
\* of the list, whichever URL supplied the image; when no tier succeeded it is
\* the status text.
C5_SourcePageField ==
  (Done /\ NonEmptyList) =>
     IF Record[2] # EmptyList
     THEN Record[3] = items[1]
     ELSE Record[3] = "No image was downloaded even though some urls were found."

\* The image came from a URL that is not the first of the list.
C5_Witness ==
  /\ Done
  /\ NonEmptyList
  /\ Record[2] # EmptyList
  /\ attempted[Len(attempted)].url # items[1]
  /\ Record[3] = items[1]

\* C6 as stated: the location label of the record is the display name
\* matched by the first URL of the list that matches the known-institution
\* table ("Unknown location" when none matches), whichever URL or tier
\* supplied the image.
C6_Original ==
  Done => Record[4] = FirstMatchLabel

\* C6 amended: the label is that of the first matching URL of the list
\* whenever the wikipedia tier or the remaining tier supplied the image or no
\* image was obtained; when the known-institution tier supplied the image the
\* label is the display name of the first table entry matched by the URL that
\* supplied it.
C6_LocationLabel ==
  Done =>
     IF attempted # << >> /\ Succeeded(Len(attempted))
                          /\ attempted[Len(attempted)].tier = "museum"
     THEN Record[4] = FirstEntryLabel[attempted[Len(attempted)].url]
     ELSE Record[4] = FirstMatchLabel

\* The image came from a URL without any institution keyword and the label
\* from another URL of the list.
C6_Witness ==
  /\ Done
  /\ NonEmptyList
  /\ Succeeded(Len(attempted))
  /\ attempted[Len(attempted)].url \notin MatchingUrls
  /\ Record[4] = FirstMatchLabel
  /\ Record[4] # "Unknown location"

\* C7: when the list is non-empty and every attempt of the three tiers
\* failed, the record has an empty image path, the status text, an empty
\* image URL and the label found by the initial scan of the list.
C7_Exhausted ==
  (Done /\ NonEmptyList /\ \A i \in Attempts : Failed(i)) =>
     /\ Record[1] = cur_batch_names_to_imgs[painting_name]
     /\ Record[2] = EmptyList
     /\ Record[3] = "No image was downloaded even though some urls were found."
     /\ Record[4] = FirstMatchLabel
     /\ Record[5] = ""

\* One URL per tier, every page a captcha page, and a label was inferred.
C7_Witness ==
  /\ Done
  /\ Len(attempted) = 3
  /\ attempted[1].tier = "wikipedia"
  /\ attempted[2].tier = "museum"
  /\ attempted[3].tier = "remaining"
  /\ \A i \in Attempts : attempted[i].outcome = "blocked"
  /\ Record[2] = EmptyList
  /\ Record[4] # "Unknown location"

\* C8: an exception raised while one candidate URL is attempted ends that
\* attempt with (None, None); process_a_painting never raises, goes on with
\* the next candidate, and at worst writes a record with an empty image path
\* and a status text.
C8_FailureContained ==
  /\ pc # "raised"
  /\ (ppc = "return" /\ \E i \in 1..Len(ops) : ops[i] \in Raises) => ret = << None, None >>
  /\ \A i \in Attempts : attempted[i].outcome \in Raises \cup {"blocked"} => Failed(i)
  /\ \A i \in Attempts :
       (attempted[i].outcome \in Raises /\ ppc = "idle" /\ ~Done) =>
          pc \in {"wikipedia", "museum", "remaining"}
  /\ Done =>
       /\ painting_name \in DOMAIN cur_batch_results
       /\ Record[2] = EmptyList =>
            Record[3] \in { "No image was downloaded (no urls were found).",
                            "No image was downloaded even though some urls were found." }

\* A timeout on the first candidate and another exception on the second,
\* after which the third candidate supplied the image.
C8_Witness ==
  /\ Done
  /\ Len(attempted) = 3
  /\ attempted[1].outcome = "PlaywrightTimeout"
  /\ attempted[2].outcome = "Exception"
  /\ Succeeded(3)
  /\ Record[2] # EmptyList

\* C9: every page session extract_main_image_from_page created is closed
\* when the function returns and while control is in the dispatcher, on every
\* exit path.
C9_SessionClosed ==
  ppc \in {"return", "idle"} =>
     /\ page # "open"
     /\ page = "closed" => close_calls >= 1

\* A return after a timeout inside the try block: only the finally block
\* closed the session.
C9_Witness ==
  /\ ppc = "return"
  /\ page = "closed"
  /\ close_calls = 1
  /\ \E i \in 1..Len(ops) : ops[i] = "PlaywrightTimeout"

TierRank(t) == CASE t = "wikipedia" -> 1 [] t = "museum" -> 2 [] t = "remaining" -> 3

\* Position k of the list was attempted in tier t before attempt j, and failed.
FailedBefore(k, t, j) ==
  \E i \in Attempts : i < j /\ attempted[i].tier = t /\ attempted[i].pos = k /\ Failed(i)

\* The URL at position k failed in some attempt before attempt j.
UrlFailedBefore(k, j) ==
  \E i \in Attempts : i < j /\ attempted[i].url = items[k] /\ Failed(i)

\* C10: the attempts of one painting are sequential and tier-ordered: one
\* attempt at a time, tiers in the order wikipedia, known institution,
\* remaining, list order within a tier; a known-institution attempt starts
\* only after every wikipedia URL was attempted and failed, and a remaining
\* attempt only after, in addition, every known-institution URL that was not
\* already invalid was attempted and failed.
C10_TierOrder ==
  /\ \A i \in Attempts : i < Len(attempted) => attempted[i].img_path # "pending"
  /\ ppc = "idle" => \A i \in Attempts : attempted[i].img_path # "pending"
  /\ \A i, j \in Attempts :
       i < j =>
         /\ TierRank(attempted[i].tier) <= TierRank(attempted[j].tier)
         /\ attempted[i].tier = attempted[j].tier => attempted[i].pos < attempted[j].pos
  /\ \A j \in Attempts :
       (attempted[j].tier = "wikipedia") =>
          /\ items[attempted[j].pos] \in WikipediaUrls
          /\ \A k \in 1..(attempted[j].pos - 1) :
               items[k] \in WikipediaUrls => FailedBefore(k, "wikipedia", j)
  /\ \A j \in Attempts :
       (attempted[j].tier \in {"museum", "remaining"}) =>
          \A k \in 1..Len(items) :
            items[k] \in WikipediaUrls => FailedBefore(k, "wikipedia", j)
  /\ \A j \in Attempts :
       (attempted[j].tier = "museum") =>
          \A k \in 1..(attempted[j].pos - 1) :
            items[k] \in MatchingUrls => UrlFailedBefore(k, j)
  /\ \A j \in Attempts :
       (attempted[j].tier = "remaining") =>
          \A k \in 1..Len(items) :
            items[k] \in MatchingUrls => UrlFailedBefore(k, j)

\* The list holds its URLs in the reverse of the tier order, and the three
\* were attempted wikipedia first, known institution second, the other last.
C10_Witness ==
  /\ Len(attempted) = 3
  /\ attempted[1].tier = "wikipedia" /\ attempted[1].pos = 3
  /\ attempted[2].tier = "museum" /\ attempted[2].pos = 2
  /\ attempted[3].tier = "remaining" /\ attempted[3].pos = 1

(***************************************************************************)
(* Properties of get_img and the resolver                                  *)
(***************************************************************************)

\* The srcset attribute was read and parsed without an exception.
Parsed == srcset_tokens # << >> /\ raised # "IndexError"

\* Every token of the responsive list went into a (URL, descriptor) pair.
AllPaired == Parsed /\ Len(srcset_pairs) * 2 = Len(srcset_tokens)

\* The downloads the weighted stage has made so far.
Popped == Len(srcset_pairs) - Len(max_heap)

\* The weighted stage is over: a download succeeded or the heap ran out.
PastHeap == gpc \notin {"query_selector_all", "bounding_box", "srcset", "heappop"}

\* download k returned non-empty bytes.
Downloaded(k) == Truthy(downloads[k].img_bytes)

\* The orders that visit every pair once by descending weight.
DescendingOrders ==
  { f \in [1..Len(srcset_pairs) -> 1..Len(srcset_pairs)] :
      /\ \A a, b \in 1..Len(srcset_pairs) : a # b => f[a] # f[b]
      /\ \A a, b \in 1..Len(srcset_pairs) :
           a < b => srcset_pairs[f[a]][2] >= srcset_pairs[f[b]][2] }

\* C11: when every token of the responsive list pairs, the downloads go by
\* descending weight, every download before the last one failed, a download
\* with non-empty bytes ends the resolver with no later download, the stage
\* ends without one only after every pair was tried, and for
\* "a.jpg 100w, b.jpg 800w, c.jpg 400w" the attempts are b.jpg, c.jpg, a.jpg.
C11_DescendingWeight ==
  (AllPaired /\ gpc # "srcset") =>
    /\ Popped <= Len(downloads)
    /\ \E f \in DescendingOrders :
         \A k \in 1..Popped : downloads[k].url = Str(srcset_pairs[f[k]][1])
    /\ \A k \in 1..(Popped - 1) : ~Downloaded(k)
    /\ (Popped > 0 /\ Downloaded(Popped)) => (gpc \in {"got", "returned", "raised"} /\ Len(downloads) = Popped)
    /\ (PastHeap /\ ~(Popped > 0 /\ Downloaded(Popped))) => max_heap = << >>
    /\ get_attribute(img_to_download, "srcset") = "a.jpg 100w, b.jpg 800w, c.jpg 400w" =>
         \A k \in 1..Popped : downloads[k].url = << "b.jpg", "c.jpg", "a.jpg" >>[k]

\* b.jpg and c.jpg failed and a.jpg, tried last, was downloaded.
C11_Witness ==
  /\ AllPaired
  /\ gpc = "got"
  /\ Len(downloads) = 3
  /\ downloads[1].url = "b.jpg" /\ ~Downloaded(1)
  /\ downloads[2].url = "c.jpg" /\ ~Downloaded(2)
  /\ downloads[3].url = "a.jpg" /\ Downloaded(3)

\* extract_best_image_from_url was called.
Called == passed # << >>

\* extract_best_image_from_url returned (None, None, None).
Absent == Called /\ gpc \in {"got", "returned"} /\ image = << None, None, None >>

IsPrefix(a, b) == Len(a) <= Len(b) /\ SubSeq(b, 1, Len(a)) = a

Reverse(s) == [k \in 1..Len(s) |-> s[Len(s) + 1 - k]]

\* The URLs download_image_from_url was called with, in call order.
DownloadUrls == [k \in 1..Len(downloads) |-> downloads[k].url]

\* What the responsive list contributes: nothing without a parsed list, the
\* pairs in the descending order f when every token paired, else the tokens
\* that contain "/" from the last to the first.
SrcsetSources(f) ==
  IF ~Parsed THEN << >>
  ELSE IF AllPaired THEN [k \in 1..Len(srcset_pairs) |-> Str(srcset_pairs[f[k]][1])]
  ELSE LET with_slash == SelectSeq(Reverse(srcset_tokens), LAMBDA t : Contains(<<"/">>, t))
       IN  [k \in 1..Len(with_slash) |-> Str(with_slash[k])]

\* What src contributes: its value unless it is missing or empty.
SrcSources ==
  IF Truthy(get_attribute(img_to_download, "src"))
  THEN << get_attribute(img_to_download, "src") >>
  ELSE << >>

\* What the other attributes contribute: their values in enumeration order.
OtherSources ==
  LET others == SelectSeq(img_to_download.attrs, LAMBDA a : a[1] \notin {"src", "srcset"})
  IN  [k \in 1..Len(others) |-> others[k][2]]

\* The URLs every parsed pair and every token with "/" of the list name.
ListEntries ==
  { Str(srcset_pairs[k][1]) : k \in 1..Len(srcset_pairs) }
  \cup { Str(srcset_tokens[k]) : k \in { j \in 1..Len(srcset_tokens) : Contains(<<"/">>, srcset_tokens[j]) } }

\* C12 as stated: (None, None, None) is returned only after every entry of
\* the responsive list, then src, then every other attribute value was
\* attempted and failed.
C12_Original ==
  Absent =>
    /\ \A u \in ListEntries : \E k \in 1..Len(downloads) : downloads[k].url = u
    /\ \A j \in 1..Len(SrcSources \o OtherSources) :
         \E k \in 1..Len(downloads) : downloads[k].url = (SrcSources \o OtherSources)[j]
    /\ \A k \in 1..Len(downloads) : ~Downloaded(k)

\* C12: the downloads always form a beginning of: the list's sources (every
\* pair by descending weight when all tokens paired, else only the tokens
\* with "/" from last to first), then a non-empty src, then every other
\* attribute value in enumeration order; only the last download made can
\* have succeeded, it ends the resolver with its result, and
\* (None, None, None) is returned only after all of them failed.
C12_SourceOrder ==
  (Called /\ gpc # "srcset") =>
    \E f \in DescendingOrders :
      LET sources == SrcsetSources(f) \o SrcSources \o OtherSources
      IN  /\ IsPrefix(DownloadUrls, sources)
          /\ \A k \in 1..(Len(downloads) - 1) : ~Downloaded(k)
          /\ (downloads # << >> /\ Downloaded(Len(downloads))) =>
               /\ gpc \in {"got", "returned", "raised"}
               /\ image[1] = downloads[Len(downloads)].img_bytes
          /\ Absent => (DownloadUrls = sources /\ \A k \in 1..Len(downloads) : ~Downloaded(k))

\* All three stages were tried and failed on an element with a fully paired
\* list, a src and another attribute.
C12_Witness ==
  /\ Absent
  /\ AllPaired
  /\ SrcSources # << >>
  /\ OtherSources # << >>
  /\ Len(downloads) = Len(srcset_pairs) + 2

\* The response has status 200 and a Content-Type that begins with "image/".
ImageResponse(r) ==
  /\ r.raises = None
  /\ r.status = 200
  /\ startswith(ContentTypeHeader(r), <<"i", "m", "a", "g", "e", "/">>)

\* The resolver is between two sources or has run out of them.
Proceeding == gpc \in {"walk", "heappop", "src", "evaluate", "attrs"} \/ Absent

\* C13: the last call of download_image_from_url returned the body exactly
\* when the response had status 200 and an image/ Content-Type; with any
\* other status or type, a client error or a timeout it returned
\* (None, None, None), no such exception left the resolver, and the
\* resolver went on to its next source (or had none left).
C13_DownloadOutcome ==
  downloads # << >> =>
    LET last == downloads[Len(downloads)]
    IN  /\ last.img_bytes # None <=> ImageResponse(response)
        /\ ImageResponse(response) => last.img_bytes = response.body
        /\ raised \notin {"aiohttp.ClientError", "TimeoutError"}
        /\ ~ImageResponse(response) =>
             /\ image = << None, None, None >>
             /\ Proceeding \/ raised \in Raises

\* A 200 text/html response made the best entry of the list fail, and the
\* next entry is waiting in the heap.
C13_Witness ==
  /\ gpc = "heappop"
  /\ Len(downloads) = 1
  /\ response.status = 200 /\ response.content_type = "text/html"
  /\ image = << None, None, None >>
  /\ max_heap # << >>

\* C14: whenever convert_to_jpeg was called, whatever PIL did, get_img saved
\* a file and returned its path: the converted bytes as .jpg when the
\* conversion went through, else the downloaded bytes under the downloaded
\* extension.
C14_NormalizationNeverFatal ==
  conversion # None =>
    /\ gpc = "returned"
    /\ raised = None
    /\ get_img_ret[2] = image[2]
    /\ IF conversion = "converted"
       THEN /\ get_img_ret[1] = ImgPath(painting_name, ".jpg")
            /\ [path |-> get_img_ret[1], bytes |-> "<jpeg bytes>"] \in written
       ELSE /\ get_img_ret[1] = ImgPath(painting_name, image[3])
            /\ [path |-> get_img_ret[1], bytes |-> image[1]] \in written

\* width * height of element i's box.
Area(i) == img_blocks[i].box.width * img_blocks[i].box.height

\* Element i has a bounding box of non-zero area.
Qualifies(i) == img_blocks[i].box # NoBox /\ Area(i) # 0

\* The loop over img_blocks ran to its end.
Ranked == gi > Len(img_blocks) /\ gpc # "bounding_box"

\* C15: the element handed to extract_best_image_from_url has a box of
\* non-zero area, no qualifying element is larger, and none of equal area
\* comes before it in the document; when no element qualifies get_img
\* returns (None, None), raises nothing and downloads nothing.
C15_LargestImage ==
  /\ Called =>
       /\ Len(passed) = 1
       /\ Qualifies(passed[1])
       /\ img_to_download = img_blocks[passed[1]]
       /\ \A j \in 1..Len(img_blocks) :
            Qualifies(j) =>
              \/ Area(j) < Area(passed[1])
              \/ Area(j) = Area(passed[1]) /\ passed[1] <= j
  /\ (Ranked /\ \A j \in 1..Len(img_blocks) : ~Qualifies(j)) =>
       /\ gpc = "returned"
       /\ get_img_ret = NoneResult
       /\ raised = None
       /\ ~Called
       /\ downloads = << >>
  /\ (Ranked /\ \E j \in 1..Len(img_blocks) : Qualifies(j)) => Called

\* Two different elements of equal area: the first one was chosen.
C15_Witness ==
  /\ Len(img_blocks) = 2
  /\ Qualifies(1) /\ Qualifies(2)
  /\ Area(1) = Area(2)
  /\ img_blocks[1] # img_blocks[2]
  /\ passed = << 1 >>

(***************************************************************************)
(* Properties of concurrent tasks                                          *)
(***************************************************************************)

\* The record process_a_painting writes for task t when it runs alone and
\* its attempts go as task_log[t] says.
SequentialRecord(t) ==
  LET u    == task_urls[t]
      last == task_log[t][Len(task_log[t])]
  IN  IF Falsy(u) \/ u.isStr THEN TaskRecord(t, NoUrlsRecord)
      ELSE IF task_log[t] # << >> /\ Truthy(last.img_path)
      THEN TaskRecord(t, SuccessRecord(u.items, last.img_path,
                                       IF last.tier = "museum" THEN MuseumNameOf[last.url]
                                       ELSE _detect_museum_from_urls(u.items),
                                       ResolvedImageUrl(last.url)))
      ELSE TaskRecord(t, ExhaustedRecord(_detect_museum_from_urls(u.items)))

\* C17: with pairwise distinct painting names, every access a task makes to
\* a table uses the task's own painting name as key, a key is in the result
\* table exactly when its task has finished, and what it holds is the
\* record that task writes when it runs alone.
C17_OwnKeyOnly ==
  /\ \A a \in accesses : a.key = names[a.task]
  /\ \A t \in Tasks : task_pc[t] = "done" <=> names[t] \in DOMAIN batch_results
  /\ DOMAIN batch_results \subseteq { names[t] : t \in Tasks }
  /\ \A t \in Tasks : task_pc[t] = "done" => batch_results[names[t]] = SequentialRecord(t)

\* Two tasks ran to their end: the first saved an image at its second
\* attempt, the second found none.
C17_Witness ==
  /\ Len(names) >= 2
  /\ task_pc[1] = "done" /\ task_pc[2] = "done"
  /\ Len(task_log[1]) = 2 /\ Truthy(batch_results[names[1]][2])
  /\ task_log[2] # << >> /\ ~Truthy(batch_results[names[2]][2])

(***************************************************************************)
(* Properties of the batch controller                                      *)
(***************************************************************************)

\* The dispatches that have been started and have not reached their end.
InProgress == { t \in Tasks : task_pc[t] \notin {"waiting", "done"} }

\* C18: the groups are consecutive slices of at most ASYNC_GROUP_SIZE
\* paintings that are started as a whole, a dispatch of a later group is
\* started only when every dispatch of the earlier groups has reached its
\* end, and at most ASYNC_GROUP_SIZE dispatches are in progress.
C18_GroupBarrier ==
  /\ \A g \in { GroupOf(t) : t \in Tasks } :
       Cardinality({ t \in Tasks : GroupOf(t) = g }) <= ASYNC_GROUP_SIZE
  /\ \A s, t \in Tasks :
       GroupOf(s) = GroupOf(t) => (s \in Waiting <=> t \in Waiting)
  /\ \A s, t \in Tasks :
       (GroupOf(s) < GroupOf(t) /\ t \notin Waiting) => task_pc[s] = "done"
  /\ Cardinality(InProgress) <= ASYNC_GROUP_SIZE

\* The first group of three has finished and the fourth painting's dispatch
\* is in progress.
C18_Witness ==
  /\ Len(names) > ASYNC_GROUP_SIZE
  /\ \A t \in 1..ASYNC_GROUP_SIZE : task_pc[t] = "done"
  /\ ASYNC_GROUP_SIZE + 1 \in InProgress

(***************************************************************************)
(* Properties of the files and the record's last component                 *)
(***************************************************************************)

\* C19: at most one image file has been written for the painting, its path
\* is the output directory, the painting's name and an extension, and when
\* the record says exhausted or no_candidates no file has been written.
C19_AtMostOneFile ==
  /\ Cardinality(files) <= 1
  /\ files \subseteq { ImgPath(painting_name, ext) : ext \in {".jpg", ".png"} }
  /\ (Done /\ ~Truthy(Record[2])) => files = {}

\* The direct image URL of the attempt that saved the image.
SavedImageUrl == ResolvedImageUrl(attempted[Len(attempted)].url)

\* C20 as stated: the fifth component is the resolved image URL when an
\* image was saved and the empty string in every other outcome.
C20_Original ==
  Done =>
    IF Record[2] # EmptyList
    THEN Record[5] = SavedImageUrl
    ELSE Record[5] = ""

\* C20: the fifth component is the resolved image URL when an image was
\* saved, the empty string when a non-empty list was exhausted, and the
\* text "No url to download the image was located." when there were no
\* candidates.
C20_ImageUrlField ==
  Done =>
    IF Record[2] # EmptyList
    THEN Record[5] = SavedImageUrl /\ Succeeded(Len(attempted))
    ELSE IF NonEmptyList
    THEN Record[5] = ""
    ELSE Record[5] = "No url to download the image was located."

\* The search stage handed over an empty list and the record's last
\* component is the status text.
C20_Witness ==
  /\ Done
  /\ ~urls.isStr /\ urls.items = << >>
  /\ Record[2] = EmptyList
  /\ Record[5] = "No url to download the image was located."

(***************************************************************************)
(* Properties of the page attempt: captcha pages                           *)
(***************************************************************************)

\* The body text read by the running or last attempt holds a captcha phrase.
Blocked == content # None /\ content \in CaptchaTexts

\* What extract_main_image_from_page does on a page after the captcha test.
AfterCaptchaTest == {"wait_for_selector", "wait_for_timeout", "accept_cookies", "get_img"}

\* C21: when the body text of the loaded page holds a captcha phrase,
\* extract_main_image_from_page closes the session and returns (None, None)
\* and does nothing else on that page: no wait for images, no consent click,
\* no image selection and no download.
C21_BlockedPage ==
  Blocked =>
     /\ \A i \in 1..Len(ops) : ops[i] \notin AfterCaptchaTest
     /\ ppc \in {"captcha_close", "except", "finally", "return", "idle"}
     /\ ppc \in {"finally", "return", "idle"} => ret = NoneResult
     /\ ppc \in {"return", "idle"} => page = "closed"
     /\ ppc = "idle" => attempted[Len(attempted)].img_path = None

\* A captcha page was met and the attempt has returned failure with the
\* session closed.
C21_Witness ==
  /\ Blocked
  /\ ppc = "return"
  /\ page = "closed"
  /\ ret = NoneResult
  /\ ops = << "new_page", "goto", "wait_for_load_state", "inner_text", "close", "close" >>

(***************************************************************************)
(* Properties of accept_cookies                                            *)
(***************************************************************************)

\* The clicks that succeeded.
SuccessfulClicks == { k \in 1..Len(clicks) : clicks[k].ok }

\* The visible elements without a disabled attribute whose markup matches a
\* consent keyword, by position.
ConsentButtons ==
  { i \in 1..Len(all_buttons) :
      /\ all_buttons[i].visible
      /\ all_buttons[i].disabled = None
      /\ all_buttons[i] \in Matching }

\* C22: accept_cookies performs at most one successful click, on the first
\* visible and non-disabled element whose markup matches a consent keyword,
\* and no failure during consent dismissal fails the page attempt: get_img
\* is called whenever accept_cookies was.
C22_BestEffort ==
  /\ Cardinality(SuccessfulClicks) <= 1
  /\ \A k \in SuccessfulClicks :
       /\ clicks[k].button \in ConsentButtons
       /\ \A i \in ConsentButtons : clicks[k].button <= i
  /\ cpc # "raised"
  /\ cpc = "done" => after_cookies = "get_img"

(***************************************************************************)
(* Properties of process_a_painting's arguments and of the tiers           *)
(***************************************************************************)

\* C23: no step of process_a_painting, of the tier helpers or of
\* extract_main_image_from_page changes the urls argument or the plaque-text
\* mapping cur_batch_names_to_imgs.
C23_InputsUnchanged ==
  [][/\ urls' = urls
     /\ cur_batch_names_to_imgs' = cur_batch_names_to_imgs]_vars

\* A call that went through the three tiers and wrote the exhausted record,
\* with the list and the mapping as they were handed over.
C23_Witness ==
  /\ Done
  /\ Len(attempted) = 3
  /\ \A i \in Attempts : Failed(i)
  /\ Len(items) = 3
  /\ cur_batch_names_to_imgs = PLAQUE_TEXTS
  /\ Record[1] = PLAQUE_TEXTS[painting_name]

\* The known-institution tier supplied the image.
MuseumTierSucceeded ==
  /\ Done
  /\ attempted # << >>
  /\ attempted[Len(attempted)].tier = "museum"
  /\ Succeeded(Len(attempted))

\* C24: when a URL attempted in the known-institution tier supplied the
\* image, the record's location label is the display name of the first table
\* entry whose keyword occurs in that URL, whatever the scan of the whole
\* list found.
C24_MuseumTierLabel ==
  MuseumTierSucceeded =>
     /\ attempted[Len(attempted)].url \in MatchingUrls
     /\ Record[4] = FirstEntryLabel[attempted[Len(attempted)].url]
     /\ Record[2] = attempted[Len(attempted)].img_path

\* The list's first URL matches one table entry, failed in the wikipedia
\* tier, and a later URL matching two other entries supplied the image: the
\* label is that URL's first entry and not the scan's.
C24_Witness ==
  /\ MuseumTierSucceeded
  /\ FirstMatchLabel = "Smithsonian Museums"
  /\ painting_location = "Smithsonian Museums"
  /\ Cardinality(MuseumMatches(attempted[Len(attempted)].url)) = 2
  /\ Record[4] = "San Francisco Museum of Modern Art (SFMOMA)"

(***************************************************************************)
(* Properties of the parsing-confidence check                              *)
(***************************************************************************)

\* The test of line 198 on the parsed list.
Fallback == Parsed /\ Len(srcset_pairs) * 2 < Len(srcset_tokens)

\* The tokens that contain "/", from the last to the first.
TokensWithSlash == SelectSeq(Reverse(srcset_tokens), LAMBDA t : Contains(<<"/">>, t))

\* How many tokens after position i contain "/".
SlashTokensAfter(i) ==
  Cardinality({ j \in (i + 1)..Len(srcset_tokens) : Contains(<<"/">>, srcset_tokens[j]) })

\* The weight of the pair whose URL download k was called with.
WeightOf(k) ==
  srcset_pairs[CHOOSE j \in 1..Len(srcset_pairs) : Str(srcset_pairs[j][1]) = downloads[k].url][2]

\* C25: the resolver walks the raw tokens exactly when 2 * pairs < tokens.
\* It then builds no heap, goes from the last token to the first, downloads
\* only the tokens that contain "/" and stops at the first download with
\* non-empty bytes; otherwise every parsed pair is in the heap or was popped
\* from it, and what was popped weighs at least what is left.
C25_ParsingConfidence ==
  (Parsed /\ gpc # "srcset") =>
    /\ gpc = "walk" => Fallback
    /\ gpc = "heappop" => ~Fallback
    /\ Fallback =>
         /\ max_heap = << >>
         /\ gpc = "walk" =>
              /\ Len(downloads) = SlashTokensAfter(gi)
              /\ \A k \in 1..Len(downloads) : ~Downloaded(k)
         /\ \A k \in 1..Len(downloads) :
              k <= Len(TokensWithSlash) => downloads[k].url = Str(TokensWithSlash[k])
         /\ \A k \in 1..Len(downloads) :
              (k <= Len(TokensWithSlash) /\ Downloaded(k)) =>
                 (Len(downloads) = k /\ gpc \in {"got", "returned", "raised"})
    /\ ~Fallback =>
         /\ gpc = "heappop" => Popped = Len(downloads)
         /\ \A k \in 1..Popped :
              /\ \E j \in 1..Len(srcset_pairs) : Str(srcset_pairs[j][1]) = downloads[k].url
              /\ \A h \in 1..Len(max_heap) : WeightOf(k) >= -max_heap[h][1]
         /\ (gpc = "src" /\ raised = None) => max_heap = << >>

\* Two of the three tokens of "a.jpg 100w, /i/b.jpg" went into a pair and the
\* resolver still walked the tokens: the last one was downloaded and ended it.
C25_Witness ==
  /\ Fallback
  /\ Len(srcset_tokens) = 3
  /\ Len(srcset_pairs) = 1
  /\ gpc = "got"
  /\ Len(downloads) = 1
  /\ downloads[1].url = "/i/b.jpg"
  /\ Downloaded(1)

(***************************************************************************)
(* Properties of the weights                                               *)
(***************************************************************************)

\* The descriptor token that follows the URL token url in the list.
DescriptorOf(url) ==
  srcset_tokens[(CHOOSE i \in 1..(Len(srcset_tokens) - 1) : Str(srcset_tokens[i]) = url) + 1]

\* Ten times the number a descriptor such as "800w", "2x" or "1.5x" denotes:
\* the digits before the point, and the first digit after it as tenths.
RECURSIVE Tenths(_, _)
Tenths(descriptor, n) ==
  IF descriptor = << >> THEN 10 * n
  ELSE IF isdigit(Head(descriptor))
  THEN Tenths(Tail(descriptor), 10 * n + (ord(Head(descriptor)) - ord("0")))
  ELSE IF Head(descriptor) = "." /\ Len(descriptor) > 1 /\ isdigit(descriptor[2])
  THEN 10 * n + (ord(descriptor[2]) - ord("0"))
  ELSE 10 * n

\* C26: the weight of every parsed entry is the number its descriptor
\* denotes, and of two entries downloaded from the heap the one downloaded
\* first has the numerically larger or equal descriptor, fractional density
\* descriptors included ("2x" before "1.5x").
C26_NumericWeight ==
  (AllPaired /\ gpc # "srcset") =>
    /\ \A j \in 1..Len(srcset_pairs) :
         10 * srcset_pairs[j][2] = Tenths(srcset_tokens[2 * j], 0)
    /\ \A a, b \in 1..Popped :
         a < b => Tenths(DescriptorOf(downloads[a].url), 0)
                    >= Tenths(DescriptorOf(downloads[b].url), 0)

(***************************************************************************)
(* Properties of get_img's single attempt per page                         *)
(***************************************************************************)

\* The strings an element with the attributes attrs offers the resolver: the
\* attribute values and the tokens of the srcset, computed once per
\* attribute set.
OfferedBy ==
  [attrs \in ATTRIBUTES |->
     { attrs[k][2] : k \in 1..Len(attrs) }
     \cup UNION { { Str(SrcsetTokens(Chars(attrs[k][2]))[n]) :
                      n \in 1..Len(SrcsetTokens(Chars(attrs[k][2]))) } :
                  k \in { j \in 1..Len(attrs) : attrs[j][1] = "srcset" } }]

\* C27: on one page at most one element, the first of the ranking, is handed
\* to the resolver; every download is for a string that element offers; and
\* when the resolver returns without an image get_img returns (None, None)
\* with no file written, the other ranked elements left in the heap untried.
C27_TopElementOnly ==
  /\ Len(passed) <= 1
  /\ Called =>
       /\ passed[1] = heap[1][2]
       /\ Len(heap) = Cardinality({ j \in 1..Len(img_blocks) : Qualifies(j) })
       /\ \A k \in 1..Len(downloads) : downloads[k].url \in OfferedBy[img_blocks[passed[1]].attrs]
  /\ (Absent /\ gpc = "returned") =>
       /\ get_img_ret = NoneResult
       /\ written = {}
       /\ raised = None

\* Two ranked elements with different attributes: every download for the
\* larger one failed and get_img returned (None, None) without trying the
\* smaller one.
C27_Witness ==
  /\ Len(img_blocks) = 2
  /\ Qualifies(1) /\ Qualifies(2)
  /\ Area(2) > Area(1)
  /\ img_blocks[1].attrs # img_blocks[2].attrs
  /\ passed = << 2 >>
  /\ downloads # << >>
  /\ Absent
  /\ gpc = "returned"
  /\ get_img_ret = NoneResult

(***************************************************************************)
(* Properties of the legacy module src/web_scrapping.py                    *)
(***************************************************************************)

LegacyDone == legacy_pc = "done"

\* The record in the painting's slot of the legacy call's result table.
LegacyRecord == legacy_results[painting_name]

\* C28: given the search stage's error string "Unsuccessful search" or an
\* empty list, the legacy process_a_painting opens no page and records the
\* status "No image was downloaded (no urls were found).".
C28_LegacyNoCandidates ==
  ((legacy_urls.isStr /\ legacy_urls.text = "Unsuccessful search") \/
   (~legacy_urls.isStr /\ legacy_urls.items = << >>)) =>
     /\ legacy_attempts = << >>
     /\ LegacyDone =>
          /\ LegacyRecord[2] = EmptyList
          /\ LegacyRecord[3] = "No image was downloaded (no urls were found)."

\* C29: in the legacy process_a_painting a URL that failed in the wikipedia
\* tier is attempted in no later tier, and no URL is attempted twice within
\* the known-institution tier, whatever keywords it contains.
C29_LegacyNoRetry ==
  \A i, j \in 1..Len(legacy_attempts) :
    (i < j /\ legacy_attempts[i].url = legacy_attempts[j].url) =>
       /\ ~(legacy_attempts[i].tier = "wikipedia" /\ legacy_attempts[j].tier # "wikipedia")
       /\ ~(legacy_attempts[i].tier = "museum" /\ legacy_attempts[j].tier = "museum")

(***************************************************************************)
(* Properties of the exhausted outcome                                     *)
(***************************************************************************)

\* The record of step 4 was written.
Exhausted ==
  /\ Done
  /\ NonEmptyList
  /\ Record[3] = "No image was downloaded even though some urls were found."

\* C30: when the exhausted record is written every URL of the list was
\* handed to extract_main_image_from_page at least once, by one tier or
\* another, and every one of those attempts failed.
C30_EveryCandidateAttempted ==
  Exhausted =>
     /\ \A i \in 1..Len(items) : \E k \in Attempts : attempted[k].url = items[i]
     /\ \A k \in Attempts : Failed(k)
     /\ \A i \in 1..Len(items) :
          items[i] \notin invalid_urls => \E k \in Attempts :
             attempted[k].tier = "remaining" /\ attempted[k].pos = i

\* A list that begins with a URL neither tier 1 nor tier 2 takes, followed
\* by a wikipedia URL and a museum URL: the three were attempted, the first
\* one last, before the exhausted record was written.
C30_Witness ==
  /\ Exhausted
  /\ Len(items) = 3
  /\ items[1] \notin WikipediaUrls \cup MatchingUrls
  /\ items[2] \in WikipediaUrls
  /\ items[3] \in MatchingUrls \ WikipediaUrls
  /\ Len(attempted) = 3
  /\ attempted[3].url = items[1]
  /\ attempted[3].tier = "remaining"

(***************************************************************************)
(* Repeated URLs in one candidate list                                     *)
(***************************************************************************)

\* C31: during one painting's processing no URL is handed to
\* extract_main_image_from_page twice, whatever the candidate list, lists
\* that hold the same URL more than once included.
C31_OpenedAtMostOnce ==
  \A i, j \in Attempts : i # j => attempted[i].url # attempted[j].url

(***************************************************************************)
(* Termination of process_a_painting                                       *)
(***************************************************************************)

\* The three outcomes of a finished call, read from the record it wrote.
NoCandidatesOutcome == Record = NoUrlsRecord

ExhaustedOutcome ==
  /\ Record[2] = EmptyList
  /\ Record[3] = "No image was downloaded even though some urls were found."

SuccessOutcome ==
  /\ Record[2] # EmptyList
  /\ \E k \in Attempts : Succeeded(k) /\ Record[2] = attempted[k].img_path

Terminated ==
  /\ Done
  /\ ppc = "idle"
  /\ writes = 1
  /\ painting_name \in DOMAIN cur_batch_results
  /\ NoCandidatesOutcome \/ ExhaustedOutcome \/ SuccessOutcome
  /\ Len(attempted) <= Len(items)

\* C32: whatever the candidate list and however the page and download steps
\* go (each returns or raises), process_a_painting ends: from some moment on
\* it has returned with the painting's record written, the record is the
\* success, the exhausted or the no-candidates record, and it made at most
\* one attempt per list position.
C32_Terminates == <>[]Terminated

\* A call that ended with the exhausted record after two failed attempts in
\* two tiers, the first of them ended by a timeout.
C32_Witness ==
  /\ Terminated
  /\ ExhaustedOutcome
  /\ Len(attempted) = 2
  /\ attempted[1].tier = "wikipedia"
  /\ attempted[1].outcome = "PlaywrightTimeout"
  /\ attempted[2].tier = "remaining"
  /\ Failed(2)

(***************************************************************************)
(* Open page sessions of one dispatch                                      *)
(***************************************************************************)

\* A tier calls extract_main_image_from_page.
AttemptStarts == ppc = "idle" /\ ppc' = "new_page"

\* browser.new_page() returns a session.
SessionOpens == page # "open" /\ page' = "open"

\* C33: a dispatch holds at most one open page session at any moment: a
\* session is opened only by the one new_page call at the start of an
\* attempt, when the attempt holds no session yet, and an attempt starts
\* only when the session of the attempt before it is closed; so N
\* dispatches hold at most N open sessions.
C33_OneOpenSession ==
  [][ /\ AttemptStarts => page \in {None, "closed"}
      /\ SessionOpens =>
           /\ ppc = "new_page"
           /\ page = None
           /\ new_page_calls' = new_page_calls + 1
      /\ new_page_calls' \in {new_page_calls, new_page_calls + 1}
      /\ new_page_calls' <= Len(attempted') ]_vars

\* The second attempt of a painting holds its session; the first attempt had
\* one too, failed, and closed it.
C33_Witness ==
  /\ Len(attempted) = 2
  /\ Failed(1)
  /\ attempted[1].outcome \in {"blocked", "no image"}
  /\ new_page_calls = 2
  /\ page = "open"
  /\ ppc = "get_img"

(***************************************************************************)
(* Malformed srcset values                                                 *)
(***************************************************************************)

\* C34: whatever the srcset value, extract_best_image_from_url does not
\* raise while it parses the value: no exception of the pairing loop leaves
\* it, and once the value is split into tokens it is walking the list,
\* popping the heap, has a download, or has gone on to the src attribute.
C34_MalformedSrcset ==
  Called =>
     /\ raised # "IndexError"
     /\ (srcset_tokens # << >> /\ gpc = "raised") => Len(downloads) > 0 \/ raised \in Raises

(***************************************************************************)
(* Calls of page.close in one attempt                                      *)
(***************************************************************************)

\* C35: on every exit path of extract_main_image_from_page page.close() is
\* called exactly once on the session the call created: never a second
\* time, and once by the time the function returns.
C35_ClosedExactlyOnce ==
  /\ close_calls <= 1
  /\ (ppc = "return" /\ page # None) => close_calls = 1

====
